---- MODULE Spec2Model ----
(***************************************************************************)
(* Model of the pull-request reviewer: the two triggering paths (the       *)
(* webhook server and the polling server, each with its own processedPRs   *)
(* map) and the review orchestrator reviewPullRequest of core-reviewer.ts. *)
(*                                                                         *)
(* Every action is one run-to-completion step of the Node.js event loop:   *)
(* the code executed from the resumption of one await (or the arrival of   *)
(* one request or timer) up to the next await.                             *)
(*                                                                         *)
(* Strings are TLA+ strings; the robot emoji of the comment bodies is      *)
(* written "(robot)", the other emoji "(red)", "(yellow)", "(blue)",       *)
(* "(warn)", "(ok)", "(fix)" and the code fence "(fence)", none of which   *)
(* occurs in the source texts.                                             *)
(***************************************************************************)
EXTENDS Integers, Sequences, FiniteSets, TLC

(***************************************************************************)
(* Bounds of the model.                                                    *)
(***************************************************************************)
MaxDeliveries == 3       \* reviewed webhook deliveries, webhook server alone
MaxCronTicks == 2        \* cron ticks, polling server alone
MaxPushes == 1           \* pushes to the pull requests
MaxBothEvents == 2       \* pushes, reviewed deliveries and cron ticks, both servers running

(***************************************************************************)
(* The monitored world: two repositories, the first with two open pull     *)
(* requests, and the commits a head can point to.                          *)
(***************************************************************************)
Repositories == << [owner |-> "o", repo |-> "r1"], [owner |-> "o", repo |-> "r2"] >>

PullRequests ==
  { [owner |-> "o", repo |-> "r1", number |-> 1],
    [owner |-> "o", repo |-> "r1", number |-> 2],
    [owner |-> "o", repo |-> "r2", number |-> 1] }

Shas == {"sha1", "sha2"}

WebhookActions == {"opened", "synchronize", "reopened", "closed"}

None == "none"

VARIABLES
  head,          \* GitHub: current head commit of every pull request
  everHead,      \* GitHub: the commits that have been head of every pull request
  pushes,        \* number of pushes so far
  deliveries,    \* number of webhook deliveries that called processPRReview so far
  wProcessed,    \* WebhookPRReviewer.processedPRs
  wTasks,        \* webhook: the processPRReview calls made so far
  wStarted,      \* history: reviewPullRequest starts of the webhook path per (prKey, sha)
  pProcessed,    \* PollingPRReviewer.processedPRs
  pScans,        \* polling: the scanAllRepositories calls made so far
  lastDecisions, \* history: the review decisions taken by the last step
  lastSettled,   \* history: the reviewPullRequest calls that settled in the last step
  rPR,           \* GitHub: the pull request reviewPullRequest is called for
  rFiles,        \* GitHub: the changed files of that pull request
  rReviews,      \* GitHub: the reviews posted on that pull request
  runs,          \* number of reviewPullRequest invocations so far
  run,           \* the current (or last) invocation of reviewPullRequest
  fComments,     \* filterDuplicateComments: the argument comments
  fExisting,     \* filterDuplicateComments: the argument existing
  fResult,       \* filterDuplicateComments: the value returned
  fCalled,       \* filterDuplicateComments: TRUE once it has returned
  sFile,         \* segmentation: the file, its patch as lines and its additions
  sChunks,       \* splitIntoHunks: the value returned for the lines of the patch
  sSplit,        \* splitIntoHunks: TRUE once it has returned
  sRoute,        \* reviewFile: "none" before it ran, then "single" or "chunks"
  sCalls,        \* reviewFile: the callGemini calls it made for the file
  sPrompts,      \* reviewFile: the prompts buildPrompt built for the file
  pResponse,     \* parseGeminiResponse, repairIncompleteJson: the argument
  pElements,     \* the texts of the elements of the array the argument holds
  pCut,          \* the characters kept of that array when it is cut, else 0
  pParsed,       \* parseGeminiResponse: raised or the comments returned
  pCalled,       \* parseGeminiResponse: TRUE once it has ended
  pRepaired,     \* repairIncompleteJson: the value returned
  pRepairCalled, \* repairIncompleteJson: TRUE once it has returned
  gResponse,     \* callGemini: what axios.post settles with
  gResult,       \* callGemini: the text returned or the error thrown
  gCalled,       \* callGemini: TRUE once it has ended
  clock,         \* retention: the time, in hours
  gitUpdatedAt,  \* retention: GitHub's updated_at of the pull request
  gitHead,       \* retention: GitHub's head commit of the pull request
  tPolling,      \* retention: the entry of PollingPRReviewer.processedPRs
  tWebhook,      \* retention: the entry of WebhookPRReviewer.processedPRs
  tReviewedAt,   \* history: when each server last reviewed the pull request
  gitDraft,      \* retention: GitHub's draft flag of the pull request
  tLast,         \* history: how the poller's last call of reviewPullRequest ended
  hSecret,       \* webhook: which of the two webhook secrets are configured
  hDeliveries,   \* webhook: number of signed deliveries so far
  hLast,         \* history: the signature and the response of the last delivery
  authData,      \* AuthManager.authData
  aNow,          \* auth: the time, in days
  aCalls,        \* auth: number of calls of AuthManager methods so far
  aIssued,       \* history: the sessions authenticate returned, not logged out or reset since
  aLast          \* history: the last call of an AuthManager method and its result

webhookVars == << deliveries, wProcessed, wTasks, wStarted >>

pollVars == << pProcessed, pScans >>

triggerVars == << head, everHead, pushes, webhookVars, pollVars, lastDecisions, lastSettled >>

reviewVars == << rPR, rFiles, rReviews, runs, run >>

filterVars == << fComments, fExisting, fResult, fCalled >>

segmentVars == << sFile, sChunks, sSplit, sRoute, sCalls, sPrompts >>

parseVars == << pResponse, pElements, pCut, pParsed, pCalled, pRepaired, pRepairCalled >>

clientVars == << gResponse, gResult, gCalled >>

retentionVars ==
  << clock, gitUpdatedAt, gitHead, tPolling, tWebhook, tReviewedAt, gitDraft, tLast >>

signatureVars == << hSecret, hDeliveries, hLast >>

authVars == << authData, aNow, aCalls, aIssued, aLast >>

moreVars == << clientVars, retentionVars, signatureVars, authVars >>

baseVars == << triggerVars, reviewVars, filterVars, segmentVars, parseVars >>

harnessVars == << filterVars, segmentVars, parseVars, moreVars >>

vars == << triggerVars, reviewVars, harnessVars >>

(***************************************************************************)
(* prKey = `${owner}/${repo}#${number}`, the key of both processedPRs maps *)
(***************************************************************************)
prKey(owner, repo, number) == owner \o "/" \o repo \o "#" \o ToString(number)

KeyOf(pr) == prKey(pr.owner, pr.repo, pr.number)

PrKeys == { KeyOf(pr) : pr \in PullRequests }

Remove(seq, i) == SubSeq(seq, 1, i - 1) \o SubSeq(seq, i + 1, Len(seq))

(***************************************************************************)
(* Map.has and Map.set on a processedPRs map, a function whose domain is   *)
(* the set of keys present.                                                *)
(***************************************************************************)
MapHas(map, key) == key \in DOMAIN map

MapSet(map, key, value) == [k \in (DOMAIN map) \cup {key} |-> IF k = key THEN value ELSE map[k]]

EmptyMap == [k \in {} |-> None]

(***************************************************************************)
(* The decision of the webhook handler: the delivery is skipped when a     *)
(* record exists and its head_sha equals the payload's head sha.           *)
(***************************************************************************)
WebhookSkipsMut(map, key, headSha) == MapHas(map, key)

WebhookSkips(map, key, headSha) == MapHas(map, key) /\ map[key].head_sha = headSha

(***************************************************************************)
(* The decision of the poll scan: isNew || hasNewCommits.                  *)
(***************************************************************************)
PollReviewsMut(map, key, headSha) == ~MapHas(map, key)

PollReviews(map, key, headSha) ==
  LET isNew == ~MapHas(map, key)
      hasNewCommits == MapHas(map, key) /\ headSha # map[key].head_sha
  IN  isNew \/ hasNewCommits

(***************************************************************************)
(* History records of the decisions, with the record of the deciding       *)
(* process (own) and of the other process (other) at the time.             *)
(***************************************************************************)
ShaOf(map, key) == IF MapHas(map, key) THEN map[key].head_sha ELSE None

\* a call of reviewPullRequest that returned or threw
Settled(via, key, sha, returned) ==
  [via |-> via, key |-> key, sha |-> sha, returned |-> returned]

Decision(via, key, sha, own, other, review) ==
  [via |-> via, key |-> key, sha |-> sha, own |-> ShaOf(own, key),
   other |-> ShaOf(other, key), review |-> review]

(***************************************************************************)
(* Review orchestrator (core-reviewer.ts).                                 *)
(***************************************************************************)

\* String.prototype.includes, endsWith and toLowerCase
Includes(s, sub) == \E i \in 0..(Len(s) - Len(sub)) : SubSeq(s, i + 1, i + Len(sub)) = sub

EndsWith(s, suffix) ==
  Len(s) >= Len(suffix) /\ SubSeq(s, Len(s) - Len(suffix) + 1, Len(s)) = suffix

UpperCase == "ABCDEFGHIJKLMNOPQRSTUVWXYZ"

LowerCase == "abcdefghijklmnopqrstuvwxyz"

LowerChar(c) ==
  IF \E i \in 1..26 : SubSeq(UpperCase, i, i) = c
  THEN LET i == CHOOSE i \in 1..26 : SubSeq(UpperCase, i, i) = c IN SubSeq(LowerCase, i, i)
  ELSE c

RECURSIVE toLowerCase(_)
toLowerCase(s) ==
  IF s = "" THEN "" ELSE LowerChar(SubSeq(s, 1, 1)) \o toLowerCase(SubSeq(s, 2, Len(s)))

\* Array.prototype.filter is SelectSeq; Array.prototype.slice(0, n)
Slice(seq, n) == SubSeq(seq, 1, IF n < Len(seq) THEN n ELSE Len(seq))

RECURSIVE Concat(_)
Concat(seqs) == IF seqs = << >> THEN << >> ELSE Head(seqs) \o Concat(Tail(seqs))

(***************************************************************************)
(* Configuration: MAX_FILES is set to 2 here, MAX_LINES_PER_FILE keeps its *)
(* default.                                                                *)
(***************************************************************************)
maxFiles == 2

maxLinesPerFile == 1500

maxSingleRequestLength == 3000

MinAdditionsForChunks == 50

nonReviewableExtensions ==
  { ".min.js", ".map", ".lock", ".svg", ".png", ".jpg", ".jpeg", ".gif",
    ".pdf", ".zip", ".tar", ".gz", ".exe", ".dll", ".so", ".dylib" }

isReviewableFile(file) ==
  IF file.status = "removed" THEN FALSE
  ELSE IF file.changes > maxLinesPerFile THEN FALSE
  ELSE LET filename == toLowerCase(file.filename)
       IN  IF \E ext \in nonReviewableExtensions : EndsWith(filename, ext)
           THEN FALSE
           ELSE TRUE

ReviewableFilesMut(files) == SelectSeq(Slice(files, maxFiles), isReviewableFile)

\* files.filter(isReviewableFile).slice(0, maxFiles)
ReviewableFiles(files) == Slice(SelectSeq(files, isReviewableFile), maxFiles)

IsLargeFileMut(file) ==
  file.patchLength > maxSingleRequestLength \/ file.additions > MinAdditionsForChunks

\* reviewFile: the file is reviewed in chunks
IsLargeFile(file) ==
  file.patchLength > maxSingleRequestLength /\ file.additions > MinAdditionsForChunks


(***************************************************************************)
(* Comment keys and deduplication.                                         *)
(***************************************************************************)
CommentKey(path, line) == path \o ":" \o ToString(line)

filterDuplicateCommentsMut(comments, existing) ==
  LET Keep(comment) == \A key \in existing : ~Includes(key, comment.path)
  IN  SelectSeq(comments, Keep)

filterDuplicateCommentsOnce(comments, existing) ==
  LET Keep(i) ==
        /\ CommentKey(comments[i].path, comments[i].line) \notin existing
        /\ \A j \in 1..(i - 1) :
             CommentKey(comments[j].path, comments[j].line)
               # CommentKey(comments[i].path, comments[i].line)
      RECURSIVE kept(_)
      kept(i) == IF i > Len(comments) THEN << >>
                 ELSE (IF Keep(i) THEN << comments[i] >> ELSE << >>) \o kept(i + 1)
  IN  kept(1)

filterDuplicateComments(comments, existing) ==
  LET Keep(comment) == CommentKey(comment.path, comment.line) \notin existing
  IN  SelectSeq(comments, Keep)

(***************************************************************************)
(* Bodies of the posted review.                                            *)
(***************************************************************************)
severityEmoji(severity) ==
  CASE severity = "error" -> "(red)"
    [] severity = "warning" -> "(yellow)"
    [] severity = "info" -> "(blue)"

toUpperCase(severity) ==
  CASE severity = "error" -> "ERROR"
    [] severity = "warning" -> "WARNING"
    [] severity = "info" -> "INFO"

formatCommentBody(comment) ==
  "(robot) **AI CODE REVIEW** (robot)\n\n" \o severityEmoji(comment.severity) \o " **"
    \o toUpperCase(comment.severity) \o "**: " \o comment.message
    \o (IF comment.suggestion # ""
        THEN "\n\n**(fix) AI Suggested fix:**\n(fence)suggestion\n" \o comment.suggestion \o "\n(fence)"
        ELSE "")
    \o "\n\n---\n(robot) *This comment was automatically generated by Gemini AI* (robot)\n*Self-hosted PR Reviewer - Not a human review*"

buildSummaryCommentMut(errors, warnings, info) ==
  IF errors + warnings + info = 0
  THEN "(robot) **AI CODE REVIEW COMPLETE** (robot)\n\n(ok) No issues found in this pull request.\n\n---\n(robot) *Automatically generated by Self-hosted Gemini AI Reviewer*"
  ELSE "(robot) **AI CODE REVIEW SUMMARY** (robot)\n\n"
         \o (IF errors > 0 THEN "(red) **" \o ToString(errors) \o "** error(s) found\n" ELSE "")
         \o (IF warnings > 0 THEN "(yellow) **" \o ToString(warnings) \o "** warning(s) found\n" ELSE "")
         \o (IF info > 0 THEN "(blue) **" \o ToString(info) \o "** info item(s) found\n" ELSE "")
         \o "\nPlease review the inline AI-generated comments for detailed feedback."
         \o (IF errors + warnings > 0
             THEN "\n\n(warn) **This PR has critical issues that should be addressed before merging.**"
             ELSE "")
         \o "\n\n---\n(robot) *Automatically generated by Self-hosted Gemini AI Reviewer*"

buildSummaryComment(errors, warnings, info) ==
  IF errors + warnings + info = 0
  THEN "(robot) **AI CODE REVIEW COMPLETE** (robot)\n\n(ok) No issues found in this pull request.\n\n---\n(robot) *Automatically generated by Self-hosted Gemini AI Reviewer*"
  ELSE "(robot) **AI CODE REVIEW SUMMARY** (robot)\n\n"
         \o (IF errors > 0 THEN "(red) **" \o ToString(errors) \o "** error(s) found\n" ELSE "")
         \o (IF warnings > 0 THEN "(yellow) **" \o ToString(warnings) \o "** warning(s) found\n" ELSE "")
         \o (IF info > 0 THEN "(blue) **" \o ToString(info) \o "** info item(s) found\n" ELSE "")
         \o "\nPlease review the inline AI-generated comments for detailed feedback."
         \o (IF errors > 0
             THEN "\n\n(warn) **This PR has critical issues that should be addressed before merging.**"
             ELSE "")
         \o "\n\n---\n(robot) *Automatically generated by Self-hosted Gemini AI Reviewer*"

CountSeverity(comments, severity) ==
  Cardinality({ i \in DOMAIN comments : comments[i].severity = severity })

\* the request postReviewComments passes to pulls.createReview
postReviewCommentsMut(comments) ==
  LET errorCount == CountSeverity(comments, "error")
      warningCount == CountSeverity(comments, "warning")
      infoCount == CountSeverity(comments, "info")
  IN  [body |-> buildSummaryComment(errorCount, warningCount, infoCount),
       event |-> IF errorCount > 0 THEN "REQUEST_CHANGES" ELSE "COMMENT",
       comments |-> [i \in DOMAIN comments |->
                       [path |-> comments[i].path, line |-> comments[i].line,
                        body |-> formatCommentBody(comments[i])]]]

postReviewComments(comments) ==
  LET errorCount == CountSeverity(comments, "error")
      warningCount == CountSeverity(comments, "warning")
      infoCount == CountSeverity(comments, "info")
      reviewState == "COMMENT"
  IN  [body |-> buildSummaryComment(errorCount, warningCount, infoCount),
       event |-> reviewState,
       comments |-> [i \in DOMAIN comments |->
                       [path |-> comments[i].path, line |-> comments[i].line,
                        body |-> formatCommentBody(comments[i])]]]

(***************************************************************************)
(* getExistingComments: the keys of the inline comments of the reviews     *)
(* whose body carries one of the two markers.  A line of 0 stands for the  *)
(* absent line of a comment.                                               *)
(***************************************************************************)
IsOwnReview(body) ==
  Includes(body, "(robot) AI CODE REVIEW (robot)") \/ Includes(body, "Generated by Gemini AI")

getExistingComments(reviews) ==
  { CommentKey(reviews[i].comments[j].path, reviews[i].comments[j].line) :
      <<i, j>> \in { p \in (DOMAIN reviews) \X (1..4) :
                       /\ p[2] \in DOMAIN reviews[p[1]].comments
                       /\ IsOwnReview(reviews[p[1]].body)
                       /\ reviews[p[1]].comments[p[2]].path # ""
                       /\ reviews[p[1]].comments[p[2]].line # 0 } }

(***************************************************************************)
(* GitHub: a push moves the head of a pull request to another commit.      *)
(***************************************************************************)
PushCommit(allowed) ==
  /\ allowed
  /\ \E pr \in PullRequests, sha \in Shas :
       /\ sha # head[pr]
       /\ head' = [head EXCEPT ![pr] = sha]
       /\ everHead' = [everHead EXCEPT ![pr] = @ \cup {sha}]
  /\ pushes' = pushes + 1
  /\ lastDecisions' = {}
  /\ lastSettled' = {}
  /\ UNCHANGED << webhookVars, pollVars, reviewVars, harnessVars >>

(***************************************************************************)
(* Webhook server (webhook-server.ts).                                     *)
(*                                                                         *)
(* POST /webhook: the handler runs to completion; processPRReview is       *)
(* called without await and runs synchronously up to its first await: the  *)
(* 2 s sleep for "synchronize", the call of reviewPullRequest otherwise.   *)
(***************************************************************************)
RelevantActions == {"opened", "synchronize", "reopened"}

WebhookTask(pr, action, headSha) ==
  [key |-> KeyOf(pr), action |-> action, head_sha |-> headSha,
   pc |-> IF action = "synchronize" THEN "sleep" ELSE "review"]

\* the handler from JSON.parse on
HandlePayload(pr, action, headSha, hasPullRequest, allowed) ==
  IF ~hasPullRequest \/ action \notin RelevantActions
  THEN /\ lastDecisions' = {}
       /\ UNCHANGED << deliveries, wProcessed, wTasks, wStarted >>
  ELSE IF WebhookSkips(wProcessed, KeyOf(pr), headSha)
  THEN /\ lastDecisions' =
            { Decision("webhook", KeyOf(pr), headSha, wProcessed, pProcessed, FALSE) }
       /\ UNCHANGED << deliveries, wProcessed, wTasks, wStarted >>
  ELSE /\ allowed
       /\ deliveries' = deliveries + 1
       /\ lastDecisions' =
            { Decision("webhook", KeyOf(pr), headSha, wProcessed, pProcessed, TRUE) }
       /\ wTasks' = Append(wTasks, WebhookTask(pr, action, headSha))
       /\ wStarted' = IF action = "synchronize" THEN wStarted
                      ELSE [wStarted EXCEPT ![KeyOf(pr), headSha] = @ + 1]
       /\ UNCHANGED wProcessed

\* a delivery that passes the signature check, or is not checked
WebhookDelivery(pr, action, headSha, hasPullRequest, allowed) ==
  /\ HandlePayload(pr, action, headSha, hasPullRequest, allowed)
  /\ lastSettled' = {}
  /\ UNCHANGED << head, everHead, pushes, pollVars, reviewVars, harnessVars >>

\* the handler ignores a payload without pull_request and an action it does
\* not review, whatever the other fields: one delivery of each kind is taken
OneOfEachIgnored(pr, action, headSha, hasPullRequest) ==
  (~hasPullRequest \/ action \notin RelevantActions) =>
    /\ pr = [owner |-> "o", repo |-> "r1", number |-> 1]
    /\ headSha = "sha1"
    /\ ~hasPullRequest => action = "opened"

Webhook(allowed) ==
  \E pr \in PullRequests, action \in WebhookActions, hasPullRequest \in BOOLEAN :
    \E headSha \in everHead[pr] :
      /\ OneOfEachIgnored(pr, action, headSha, hasPullRequest)
      /\ WebhookDelivery(pr, action, headSha, hasPullRequest, allowed)

(***************************************************************************)
(* processPRReview after the 2 s sleep: reviewPullRequest is called.       *)
(***************************************************************************)
ProcessPRReviewWakes ==
  \E i \in DOMAIN wTasks :
    /\ wTasks[i].pc = "sleep"
    /\ wTasks' = [wTasks EXCEPT ![i].pc = "review"]
    /\ wStarted' = [wStarted EXCEPT ![wTasks[i].key, wTasks[i].head_sha] = @ + 1]
    /\ lastDecisions' = {}
    /\ lastSettled' = {}
    /\ UNCHANGED << head, everHead, pushes, deliveries, wProcessed, pollVars, reviewVars, harnessVars >>

ProcessPRReviewSettledMut(record) ==
  \E i \in DOMAIN wTasks, returned \in BOOLEAN :
    /\ wTasks[i].pc = "review"
    /\ wTasks' = Remove(wTasks, i)
    /\ wProcessed' = MapSet(wProcessed, wTasks[i].key, [head_sha |-> wTasks[i].head_sha])
    /\ lastDecisions' = {}
    /\ lastSettled' = IF record
                      THEN { Settled("webhook", wTasks[i].key, wTasks[i].head_sha, returned) }
                      ELSE {}
    /\ UNCHANGED << head, everHead, pushes, deliveries, wStarted, pollVars, reviewVars, harnessVars >>

(***************************************************************************)
(* processPRReview after reviewPullRequest settled: the record is written  *)
(* when it returned, and nothing is written when it threw.                 *)
(***************************************************************************)
ProcessPRReviewSettled(record) ==
  \E i \in DOMAIN wTasks, returned \in BOOLEAN :
    /\ wTasks[i].pc = "review"
    /\ wTasks' = Remove(wTasks, i)
    /\ wProcessed' = IF returned
                     THEN MapSet(wProcessed, wTasks[i].key, [head_sha |-> wTasks[i].head_sha])
                     ELSE wProcessed
    /\ lastDecisions' = {}
    /\ lastSettled' = IF record
                      THEN { Settled("webhook", wTasks[i].key, wTasks[i].head_sha, returned) }
                      ELSE {}
    /\ UNCHANGED << head, everHead, pushes, deliveries, wStarted, pollVars, reviewVars, harnessVars >>

\* lastSettled is recorded only where a property reads it
ProcessPRReviewSettles == ProcessPRReviewSettled(FALSE)

(***************************************************************************)
(* Polling server (polling-server.ts).                                     *)
(*                                                                         *)
(* A scan is one call of scanAllRepositories.  pc "load" awaits            *)
(* loadRepositories, "list" awaits getRepositoryOctokit and pulls.list of  *)
(* repository number repo, "review" awaits reviewPullRequest of list[idx], *)
(* "sleep" awaits the 5 s delay after it.                                  *)
(***************************************************************************)
NewScan == [pc |-> "load", repo |-> 0, list |-> << >>, idx |-> 0]

PullsOf(r) == { pr \in PullRequests : pr.owner = r.owner /\ pr.repo = r.repo }

RECURSIVE SortedByNumber(_)
SortedByNumber(prs) ==
  IF prs = {} THEN << >>
  ELSE LET first == CHOOSE pr \in prs : \A q \in prs : pr.number <= q.number
       IN  << first >> \o SortedByNumber(prs \ {first})

\* pulls.list({state: 'open'}): the open pull requests with their head commits
PullsList(r) ==
  LET prs == SortedByNumber(PullsOf(r))
  IN  [i \in 1..Len(prs) |-> [number |-> prs[i].number, sha |-> head[prs[i]]]]

\* the for loop over pullRequests from index idx on: the index of the first
\* pull request that is sent to reviewPullRequest, Len(list) + 1 if there is none
RECURSIVE NextToReview(_, _, _, _)
NextToReview(map, r, list, idx) ==
  IF idx > Len(list) THEN idx
  ELSE IF PollReviews(map, prKey(r.owner, r.repo, list[idx].number), list[idx].sha) THEN idx
  ELSE NextToReview(map, r, list, idx + 1)

\* the loop of scanRepository resumed at index idx, then the loop of
\* scanAllRepositories, up to the next await
ScanContinues(i, list, idx) ==
  LET r == Repositories[pScans[i].repo]
      j == NextToReview(pProcessed, r, list, idx)
      key(k) == prKey(r.owner, r.repo, list[k].number)
      considered == { k \in idx..Len(list) : k <= j }
  IN  /\ lastDecisions' =
           { Decision("poll", key(k), list[k].sha, pProcessed, wProcessed, k = j) : k \in considered }
      /\ IF j <= Len(list)
         THEN /\ pScans' = [pScans EXCEPT ![i] = [pc |-> "review", repo |-> @.repo,
                                                  list |-> list, idx |-> j]]
         ELSE /\ pScans' = [pScans EXCEPT ![i] =
                   IF @.repo < Len(Repositories)
                   THEN [pc |-> "list", repo |-> @.repo + 1, list |-> << >>, idx |-> 0]
                   ELSE [pc |-> "done", repo |-> 0, list |-> << >>, idx |-> 0]]

ScanLoaded ==
  \E i \in DOMAIN pScans :
    /\ pScans[i].pc = "load"
    /\ pScans' = [pScans EXCEPT ![i] = [pc |-> "list", repo |-> 1, list |-> << >>, idx |-> 0]]
    /\ lastDecisions' = {}
    /\ lastSettled' = {}
    /\ UNCHANGED << head, everHead, pushes, webhookVars, pProcessed, reviewVars, harnessVars >>

\* listed = FALSE: no installation for the repository, or pulls.list threw
ScanListed ==
  \E i \in DOMAIN pScans, listed \in BOOLEAN :
    /\ pScans[i].pc = "list"
    /\ ScanContinues(i, IF listed THEN PullsList(Repositories[pScans[i].repo]) ELSE << >>, 1)
    /\ lastSettled' = {}
    /\ UNCHANGED << head, everHead, pushes, webhookVars, pProcessed, reviewVars, harnessVars >>

ScanReviewSettlesMut ==
  \E i \in DOMAIN pScans, returned \in BOOLEAN :
    LET scan == pScans[i]
        r == Repositories[scan.repo]
    IN  /\ scan.pc = "review"
        /\ IF returned
           THEN /\ pProcessed' = MapSet(pProcessed,
                                        prKey(r.owner, r.repo, scan.list[scan.idx].number),
                                        [head_sha |-> scan.list[scan.idx].sha])
                /\ pScans' = [pScans EXCEPT ![i].pc = "sleep"]
                /\ lastDecisions' = {}
             ELSE /\ pScans' = [pScans EXCEPT ![i] =
                                [pc |-> "done", repo |-> 0, list |-> << >>, idx |-> 0]]
                /\ lastDecisions' = {}
                /\ UNCHANGED pProcessed
        /\ lastSettled' = {}
        /\ UNCHANGED << head, everHead, pushes, webhookVars, reviewVars, harnessVars >>

ScanReviewSettled(record) ==
  \E i \in DOMAIN pScans, returned \in BOOLEAN :
    LET scan == pScans[i]
        r == Repositories[scan.repo]
    IN  /\ scan.pc = "review"
        /\ IF returned
           THEN /\ pProcessed' = MapSet(pProcessed,
                                        prKey(r.owner, r.repo, scan.list[scan.idx].number),
                                        [head_sha |-> scan.list[scan.idx].sha])
                /\ pScans' = [pScans EXCEPT ![i].pc = "sleep"]
                /\ lastDecisions' = {}
             ELSE /\ ScanContinues(i, scan.list, scan.idx + 1)
                /\ UNCHANGED pProcessed
        /\ lastSettled' =
             IF record
             THEN { Settled("poll", prKey(r.owner, r.repo, scan.list[scan.idx].number),
                            scan.list[scan.idx].sha, returned) }
             ELSE {}
        /\ UNCHANGED << head, everHead, pushes, webhookVars, reviewVars, harnessVars >>

ScanReviewSettles == ScanReviewSettled(FALSE)

ScanSlept ==
  \E i \in DOMAIN pScans :
    /\ pScans[i].pc = "sleep"
    /\ ScanContinues(i, pScans[i].list, pScans[i].idx + 1)
    /\ lastSettled' = {}
    /\ UNCHANGED << head, everHead, pushes, webhookVars, pProcessed, reviewVars, harnessVars >>

(***************************************************************************)
(* start() schedules the cron job after the initial scan has completed;    *)
(* every tick then calls scanAllRepositories, whatever the earlier calls   *)
(* are doing.                                                              *)
(***************************************************************************)
CronTick(allowed) ==
  /\ pScans[1].pc = "done"
  /\ allowed
  /\ pScans' = Append(pScans, NewScan)
  /\ lastDecisions' = {}
  /\ lastSettled' = {}
  /\ UNCHANGED << head, everHead, pushes, webhookVars, pProcessed, reviewVars, harnessVars >>

(***************************************************************************)
(* reviewPullRequest (core-reviewer.ts), one invocation at a time on one   *)
(* pull request.                                                           *)
(***************************************************************************)
MaxRuns == 2             \* invocations of reviewPullRequest, one after the other
MaxInvocations == 1      \* invocations when each is looked at on its own
MaxListedFiles == 3      \* changed files of the pull request

Comment(path, line, severity, message, suggestion) ==
  [path |-> path, line |-> line, severity |-> severity, message |-> message,
   suggestion |-> suggestion]

c1 == Comment("src/a.ts", 10, "error", "sql injection", "")

c2 == Comment("src/a.ts", 11, "warning", "slow loop", "")

c3 == Comment("src/a.ts", 10, "info", "reworded", "use a parameter")

\* what parseGeminiResponse returns for the answers of the model
Answers == { << >>, << c1 >>, << c2, c3 >> }

ChangedFile(filename, status, changes, additions, patchLength, hunks) ==
  [filename |-> filename, status |-> status, changes |-> changes, additions |-> additions,
   patchLength |-> patchLength, hunks |-> hunks]

\* The changed files a pull request can have, in the path order in which
\* pulls.listFiles returns them.  patchLength 0: the file has no patch;
\* hunks: the number of chunks splitIntoHunks returns for the patch.
AllFiles ==
  << ChangedFile("Logo.PNG", "added", 0, 0, 0, 0),
     ChangedFile("data.bin", "added", 1500, 1500, 0, 0),
     ChangedFile("gen.ts", "modified", 2000, 1200, 0, 0),
     ChangedFile("old.ts", "removed", 3, 0, 50, 1),
     ChangedFile("src/a.ts", "modified", 6, 5, 120, 1),
     ChangedFile("src/b.ts", "added", 80, 80, 4000, 2) >>

RECURSIVE Listing(_, _)
Listing(chosen, i) ==
  IF i > Len(AllFiles) THEN << >>
  ELSE (IF i \in chosen THEN << AllFiles[i] >> ELSE << >>) \o Listing(chosen, i + 1)

FileLists ==
  { Listing(chosen, 1) :
      chosen \in { c \in SUBSET DOMAIN AllFiles : Cardinality(c) <= MaxListedFiles } }

\* a review that carries a marker, with a comment on a line and an outdated one
EarlierReview ==
  [body |-> "Generated by Gemini AI", event |-> "COMMENT",
   comments |-> << [path |-> "src/a.ts", line |-> 10, body |-> "earlier"],
                   [path |-> "src/a.ts", line |-> 0, body |-> "outdated"] >>]

\* The invocation: pc is the await it is suspended at; octokit, prFetch,
\* filesFetch, existingFetch, calls and postResult record what the awaited
\* operations did, outcome what reviewPullRequest did.
IdleRun ==
  [pc |-> "idle", outcome |-> "", octokit |-> "", prFetch |-> "", filesFetch |-> "",
   existingFetch |-> "", postResult |-> "", reviewable |-> << >>, existing |-> {},
   fileIdx |-> 0, chunk |-> 0, fileComments |-> << >>, allComments |-> << >>,
   loopDone |-> FALSE, calls |-> << >>, requests |-> << >>, reviewsBefore |-> 0]

Result(succeeded) == IF succeeded THEN "ok" ELSE "failed"

Returned(r) == [r EXCEPT !.pc = "done", !.outcome = "returned"]

Threw(r) == [r EXCEPT !.pc = "done", !.outcome = "threw"]

ReviewStarts(maxRuns) ==
  /\ run.pc \in {"idle", "done"}
  /\ runs < maxRuns
  /\ runs' = runs + 1
  /\ run' = [IdleRun EXCEPT !.pc = "octokit", !.reviewsBefore = Len(rReviews)]
  /\ UNCHANGED << triggerVars, harnessVars, rPR, rFiles, rReviews >>

\* getOctokitForRepository: an Octokit, null (no installation) or an error
OctokitSettles ==
  \E result \in {"octokit", "null", "error"} :
    /\ run.pc = "octokit"
    /\ run' = CASE result = "octokit" -> [run EXCEPT !.octokit = result, !.pc = "get"]
                [] result = "null" -> Returned([run EXCEPT !.octokit = result])
                [] result = "error" -> Threw([run EXCEPT !.octokit = result])
    /\ UNCHANGED << triggerVars, harnessVars, rPR, rFiles, rReviews, runs >>

\* pulls.get settled
AfterPullsGetMut(r, fetched) ==
  IF ~fetched THEN Returned(r)
  ELSE IF rPR.draft THEN Returned(r)
  ELSE IF rPR.state # "open" THEN Returned(r)
  ELSE [r EXCEPT !.pc = "files"]

AfterPullsGet(r, fetched) ==
  IF ~fetched THEN Threw(r)
  ELSE IF rPR.draft THEN Returned(r)
  ELSE IF rPR.state # "open" THEN Returned(r)
  ELSE [r EXCEPT !.pc = "files"]

PullsGetSettles ==
  \E fetched \in BOOLEAN :
    /\ run.pc = "get"
    /\ run' = AfterPullsGet([run EXCEPT !.prFetch = Result(fetched)], fetched)
    /\ UNCHANGED << triggerVars, harnessVars, rPR, rFiles, rReviews, runs >>

ListFilesSettles ==
  \E fetched \in BOOLEAN :
    LET r == [run EXCEPT !.filesFetch = Result(fetched)]
    IN  /\ run.pc = "files"
        /\ run' = IF ~fetched THEN Threw(r)
                  ELSE IF Len(rFiles) = 0 THEN Returned(r)
                  ELSE IF Len(ReviewableFiles(rFiles)) = 0 THEN Returned(r)
                  ELSE [r EXCEPT !.reviewable = ReviewableFiles(rFiles), !.pc = "existing"]
        /\ UNCHANGED << triggerVars, harnessVars, rPR, rFiles, rReviews, runs >>

\* the index of the first file from idx on that has a patch
RECURSIVE NextWithPatch(_, _)
NextWithPatch(files, idx) ==
  IF idx > Len(files) THEN idx
  ELSE IF files[idx].patchLength > 0 THEN idx
  ELSE NextWithPatch(files, idx + 1)

\* the for loop over reviewableFiles resumed at index idx, up to the next
\* await: the model call of the next file with a patch, or, after the loop,
\* the deduplication and the createReview call
FileLoopContinuesMut(r, idx) ==
  LET j == NextWithPatch(r.reviewable, idx)
      newComments == filterDuplicateComments(r.allComments, r.existing)
  IN  IF j <= Len(r.reviewable)
      THEN [r EXCEPT !.pc = "call", !.fileIdx = j, !.chunk = 1, !.fileComments = << >>]
      ELSE [r EXCEPT !.loopDone = TRUE, !.pc = "post",
                     !.requests = Append(@, postReviewComments(newComments))]

FileLoopContinues(r, idx) ==
  LET j == NextWithPatch(r.reviewable, idx)
      newComments == filterDuplicateComments(r.allComments, r.existing)
  IN  IF j <= Len(r.reviewable)
      THEN [r EXCEPT !.pc = "call", !.fileIdx = j, !.chunk = 1, !.fileComments = << >>]
      ELSE IF Len(newComments) = 0
      THEN Returned([r EXCEPT !.loopDone = TRUE])
      ELSE [r EXCEPT !.loopDone = TRUE, !.pc = "post",
                     !.requests = Append(@, postReviewComments(newComments))]

ExistingCommentsSettleMut ==
  \E fetched \in BOOLEAN :
    /\ run.pc = "existing"
    /\ run' = FileLoopContinues(
                [run EXCEPT !.existing = getExistingComments(rReviews),
                            !.existingFetch = Result(fetched)], 1)
    /\ UNCHANGED << triggerVars, harnessVars, rPR, rFiles, rReviews, runs >>

\* getExistingComments: listReviews and listCommentsForReview, or the empty
\* set when one of them fails
ExistingCommentsSettle ==
  \E fetched \in BOOLEAN :
    /\ run.pc = "existing"
    /\ run' = FileLoopContinues(
                [run EXCEPT !.existing = IF fetched THEN getExistingComments(rReviews) ELSE {},
                            !.existingFetch = Result(fetched)], 1)
    /\ UNCHANGED << triggerVars, harnessVars, rPR, rFiles, rReviews, runs >>

\* reviewFile returned: reviewPullRequest pushes its comments and goes on
FileReviewed(r) ==
  FileLoopContinues([r EXCEPT !.allComments = @ \o r.fileComments], r.fileIdx + 1)

\* callGemini settled for the file, or for the chunk of the large file, under
\* review: it threw (answered = FALSE), or it returned a text from which
\* parseGeminiResponse made comments
AfterModelCallMut(r, answered, comments) ==
  LET file == r.reviewable[r.fileIdx]
  IN  IF ~answered
      THEN FileReviewed([r EXCEPT !.fileComments = << >>])
      ELSE IF ~IsLargeFile(file)
      THEN FileReviewed([r EXCEPT !.fileComments = comments])
      ELSE IF r.chunk < file.hunks
      THEN [r EXCEPT !.fileComments = @ \o comments, !.pc = "delay"]
      ELSE FileReviewed([r EXCEPT !.fileComments = @ \o comments])

AfterModelCallStops(r, answered, comments) ==
  LET file == r.reviewable[r.fileIdx]
  IN  IF ~IsLargeFile(file)
      THEN FileReviewed([r EXCEPT !.fileComments = IF answered THEN comments ELSE << >>])
      ELSE IF answered
      THEN IF r.chunk < file.hunks
           THEN [r EXCEPT !.fileComments = @ \o comments, !.pc = "delay"]
           ELSE FileReviewed([r EXCEPT !.fileComments = @ \o comments])
      ELSE FileReviewed(r)

AfterModelCall(r, answered, comments) ==
  LET file == r.reviewable[r.fileIdx]
  IN  IF ~IsLargeFile(file)
      THEN FileReviewed([r EXCEPT !.fileComments = IF answered THEN comments ELSE << >>])
      ELSE IF answered
      THEN IF r.chunk < file.hunks
           THEN [r EXCEPT !.fileComments = @ \o comments, !.pc = "delay"]
           ELSE FileReviewed([r EXCEPT !.fileComments = @ \o comments])
      ELSE IF r.chunk < file.hunks
           THEN [r EXCEPT !.chunk = @ + 1]
           ELSE FileReviewed(r)

ModelCallSettles ==
  \E answered \in BOOLEAN, answer \in Answers :
    /\ run.pc = "call"
    /\ (~answered => answer = << >>)
    /\ run' = AfterModelCall(
                [run EXCEPT !.calls = Append(@, [file |-> run.fileIdx, chunk |-> run.chunk,
                                                  answered |-> answered, answer |-> answer])],
                answered, answer)
    /\ UNCHANGED << triggerVars, harnessVars, rPR, rFiles, rReviews, runs >>

\* the 1000 ms delay between two chunks is over
ChunkDelaySettles ==
  /\ run.pc = "delay"
  /\ run' = [run EXCEPT !.pc = "call", !.chunk = @ + 1]
  /\ UNCHANGED << triggerVars, harnessVars, rPR, rFiles, rReviews, runs >>

\* pulls.createReview settles: GitHub stored the review, or the call threw
CreateReviewSettles ==
  \E posted \in BOOLEAN :
    LET r == [run EXCEPT !.postResult = Result(posted)]
    IN  /\ run.pc = "post"
        /\ IF posted
           THEN /\ rReviews' = Append(rReviews, run.requests[Len(run.requests)])
                /\ run' = Returned(r)
           ELSE /\ run' = Threw(r)
                /\ UNCHANGED rReviews
        /\ UNCHANGED << triggerVars, harnessVars, rPR, rFiles, runs >>

ReviewIdle ==
  /\ rPR = [draft |-> FALSE, state |-> "open"]
  /\ rFiles = << >>
  /\ rReviews = << >>
  /\ runs = 0
  /\ run = IdleRun

ReviewInit ==
  /\ rPR \in [draft : BOOLEAN, state : {"open", "closed"}]
  /\ rFiles \in FileLists
  /\ rReviews \in { << >>, << EarlierReview >> }
  /\ runs = 0
  /\ run = IdleRun

(***************************************************************************)
(* filterDuplicateComments applied to every list of up to MaxComments      *)
(* comments and every set of existing keys.                                *)
(***************************************************************************)
MaxComments == 3

c4 == Comment("src/b.ts", 10, "error", "sql injection", "")

CommentPool == { c1, c2, c3, c4 }

KeyPool == { "src/a.ts:10", "src/a.ts:11", "src/b.ts:10", "src/a.ts:1" }

FilterIdle ==
  /\ fComments = << >>
  /\ fExisting = {}
  /\ fResult = << >>
  /\ fCalled = FALSE

FilterInit ==
  /\ fComments \in UNION { [1..n -> CommentPool] : n \in 0..MaxComments }
  /\ fExisting \in SUBSET KeyPool
  /\ fResult = << >>
  /\ fCalled = FALSE

FilterCalled ==
  /\ ~fCalled
  /\ fResult' = filterDuplicateComments(fComments, fExisting)
  /\ fCalled' = TRUE
  /\ UNCHANGED << triggerVars, reviewVars, moreVars, segmentVars, parseVars, fComments, fExisting >>

(***************************************************************************)
(* splitIntoHunks (core-reviewer.ts).  diffLines is file.patch.split('\n'). *)
(* A chunk carries, besides its content, the lines joined into the content. *)
(***************************************************************************)
maxHeaderLines == 10

maxHunkLines == 100

startsWith(line, prefix) ==
  Len(line) >= Len(prefix) /\ SubSeq(line, 1, Len(prefix)) = prefix

\* Array.prototype.join('\n'), computed by halves
RECURSIVE join(_)
join(lines) ==
  IF lines = << >> THEN ""
  ELSE IF Len(lines) = 1 THEN lines[1]
  ELSE LET half == Len(lines) \div 2
       IN  join(SubSeq(lines, 1, half)) \o "\n" \o join(SubSeq(lines, half + 1, Len(lines)))

\* the first loop: the lines before the first @@ line, ten at most
RECURSIVE captureHeaders(_, _)
captureHeaders(diffLines, i) ==
  IF i > Len(diffLines) \/ i > maxHeaderLines THEN << >>
  ELSE IF startsWith(diffLines[i], "@@") THEN << >>
  ELSE << diffLines[i] >> \o captureHeaders(diffLines, i + 1)

Hunk(headerLines, currentHunk, additions, deletions) ==
  [content |-> join(headerLines \o currentHunk), additions |-> additions,
   deletions |-> deletions, lines |-> headerLines \o currentHunk]

NoHunks ==
  [hunks |-> << >>, currentHunk |-> << >>, currentAdditions |-> 0, currentDeletions |-> 0]

\* what a line that is no @@ line adds to currentAdditions and currentDeletions
addedByMut(line) == IF startsWith(line, "+") THEN 1 ELSE 0

addedBy(line) == IF startsWith(line, "+") /\ ~startsWith(line, "+++") THEN 1 ELSE 0

deletedBy(line) ==
  IF addedBy(line) = 0 /\ startsWith(line, "-") /\ ~startsWith(line, "---") THEN 1 ELSE 0

\* one iteration of the second loop
hunkStepLate(st, headerLines, line) ==
  IF startsWith(line, "@@")
  THEN [hunks |-> IF Len(st.currentHunk) > 0
                  THEN Append(st.hunks, Hunk(headerLines, st.currentHunk,
                                             st.currentAdditions, st.currentDeletions))
                  ELSE st.hunks,
        currentHunk |-> << line >>, currentAdditions |-> 0, currentDeletions |-> 0]
  ELSE LET currentHunk == Append(st.currentHunk, line)
       IN  IF Len(currentHunk) > maxHunkLines + 1
           THEN [hunks |-> Append(st.hunks,
                                  Hunk(headerLines, currentHunk,
                                       st.currentAdditions + addedBy(line),
                                       st.currentDeletions + deletedBy(line))),
                 currentHunk |-> << >>, currentAdditions |-> 0, currentDeletions |-> 0]
           ELSE [hunks |-> st.hunks, currentHunk |-> currentHunk,
                 currentAdditions |-> st.currentAdditions + addedBy(line),
                 currentDeletions |-> st.currentDeletions + deletedBy(line)]

hunkStepMut(st, headerLines, line) ==
  IF startsWith(line, "@@")
  THEN [hunks |-> IF Len(st.currentHunk) > 0
                  THEN Append(st.hunks, Hunk(headerLines, st.currentHunk,
                                             st.currentAdditions, st.currentDeletions))
                  ELSE st.hunks,
        currentHunk |-> << line >>, currentAdditions |-> 0, currentDeletions |-> 0]
  ELSE LET currentHunk == Append(st.currentHunk, line)
       IN  IF Len(currentHunk) >= maxHunkLines
           THEN [hunks |-> Append(st.hunks,
                                  Hunk(headerLines, currentHunk,
                                       st.currentAdditions + addedBy(line),
                                       st.currentDeletions + deletedBy(line))),
                 currentHunk |-> << >>, currentAdditions |-> 0, currentDeletions |-> 0]
           ELSE [hunks |-> st.hunks, currentHunk |-> currentHunk,
                 currentAdditions |-> st.currentAdditions + addedBy(line),
                 currentDeletions |-> st.currentDeletions + deletedBy(line)]

hunkStep(st, headerLines, line) ==
  IF startsWith(line, "@@")
  THEN [hunks |-> IF Len(st.currentHunk) > 0
                  THEN Append(st.hunks, Hunk(headerLines, st.currentHunk,
                                             st.currentAdditions, st.currentDeletions))
                  ELSE st.hunks,
        currentHunk |-> << line >>, currentAdditions |-> 0, currentDeletions |-> 0]
  ELSE LET currentHunk == Append(st.currentHunk, line)
       IN  IF Len(currentHunk) > maxHunkLines
           THEN [hunks |-> Append(st.hunks,
                                  Hunk(headerLines, currentHunk,
                                       st.currentAdditions + addedBy(line),
                                       st.currentDeletions + deletedBy(line))),
                 currentHunk |-> << >>, currentAdditions |-> 0, currentDeletions |-> 0]
           ELSE [hunks |-> st.hunks, currentHunk |-> currentHunk,
                 currentAdditions |-> st.currentAdditions + addedBy(line),
                 currentDeletions |-> st.currentDeletions + deletedBy(line)]

\* the second loop over the lines from to to, computed by halves, the first
\* half before the second
RECURSIVE hunkLoop(_, _, _, _, _)
hunkLoop(diffLines, headerLines, from, to, st) ==
  IF from > to THEN st
  ELSE IF from = to THEN hunkStep(st, headerLines, diffLines[from])
  ELSE LET half == (from + to) \div 2
           first == hunkLoop(diffLines, headerLines, from, half, st)
       IN  IF Len(first.hunks) >= 0
           THEN hunkLoop(diffLines, headerLines, half + 1, to, first)
           ELSE first

splitIntoHunks(diffLines) ==
  LET headerLines == captureHeaders(diffLines, 1)
      st == hunkLoop(diffLines, headerLines, 1, Len(diffLines), NoHunks)
      hunks == IF Len(st.currentHunk) > 0
               THEN Append(st.hunks, Hunk(headerLines, st.currentHunk,
                                          st.currentAdditions, st.currentDeletions))
               ELSE st.hunks
  IN  IF Len(hunks) > 0 THEN hunks
      ELSE << [content |-> join(diffLines), additions |-> 0, deletions |-> 0,
               lines |-> diffLines] >>

reviewFileRouteMut(file) ==
  IF /\ file.hasAdditions
     /\ IsLargeFile([patchLength |-> Len(join(file.patch)), additions |-> file.additions])
  THEN "single"
  ELSE "chunks"

\* reviewFile: the branch taken for a file whose patch is given as its lines;
\* hasAdditions is FALSE when file.additions is undefined, and undefined > 50
\* is false
reviewFileRoute(file) ==
  IF /\ file.hasAdditions
     /\ IsLargeFile([patchLength |-> Len(join(file.patch)), additions |-> file.additions])
  THEN "chunks"
  ELSE "single"

\* reviewFile and reviewLargeFile: the number of callGemini calls for a file
reviewFileCalls(file) ==
  IF reviewFileRoute(file) = "chunks" THEN Len(splitIntoHunks(file.patch)) ELSE 1

(***************************************************************************)
(* buildPrompt (core-reviewer.ts): the diff portion of the prompt.  The    *)
(* instruction portion is the same text for every file and is left out; a  *)
(* prompt is the budget computed for the file, the lines of its patch and  *)
(* the diff put into the prompt.                                           *)
(***************************************************************************)
baseLength == 1500

truncationMarker == "... (content truncated for brevity)"

calculateMaxDiffLengthMut(file) ==
  LET additions == IF file.hasAdditions THEN file.additions ELSE 0
      extraLength == IF additions * 10 < 1000 THEN additions * 10 ELSE additions * 10
  IN  baseLength + extraLength

\* file.additions || 0, then Math.min(additions * 10, 1000)
calculateMaxDiffLength(file) ==
  LET additions == IF file.hasAdditions THEN file.additions ELSE 0
      extraLength == IF additions * 10 < 1000 THEN additions * 10 ELSE 1000
  IN  baseLength + extraLength

NoTruncation == [truncatedLines |-> << >>, currentLength |-> 0, broke |-> FALSE]

truncateStepMut(st, line, maxDiffLength) ==
  IF st.broke THEN st
  ELSE IF st.currentLength + Len(line) > maxDiffLength
  THEN [truncatedLines |-> Append(st.truncatedLines, truncationMarker),
        currentLength |-> st.currentLength, broke |-> FALSE]
  ELSE [truncatedLines |-> Append(st.truncatedLines, line),
        currentLength |-> st.currentLength + Len(line) + 1, broke |-> FALSE]

\* one iteration of the truncation loop; nothing happens after the break
truncateStep(st, line, maxDiffLength) ==
  IF st.broke THEN st
  ELSE IF st.currentLength + Len(line) > maxDiffLength
  THEN [truncatedLines |-> Append(st.truncatedLines, truncationMarker),
        currentLength |-> st.currentLength, broke |-> TRUE]
  ELSE [truncatedLines |-> Append(st.truncatedLines, line),
        currentLength |-> st.currentLength + Len(line) + 1, broke |-> FALSE]

\* the truncation loop over the lines from to to, computed by halves, the
\* first half before the second
RECURSIVE truncateLoop(_, _, _, _, _)
truncateLoop(lines, from, to, st, maxDiffLength) ==
  IF from > to THEN st
  ELSE IF from = to THEN truncateStep(st, lines[from], maxDiffLength)
  ELSE LET half == (from + to) \div 2
           first == truncateLoop(lines, from, half, st, maxDiffLength)
       IN  IF first.broke
           THEN first
           ELSE truncateLoop(lines, half + 1, to, first, maxDiffLength)

\* if (diff.length > maxDiffLength) the lines kept by the loop are joined
promptDiff(lines, diff, maxDiffLength) ==
  IF Len(diff) > maxDiffLength
  THEN join(truncateLoop(lines, 1, Len(lines), NoTruncation, maxDiffLength).truncatedLines)
  ELSE diff

buildPrompt(file) ==
  [budget |-> calculateMaxDiffLength(file), patch |-> file.patch,
   diff |-> promptDiff(file.patch, join(file.patch), calculateMaxDiffLength(file))]

\* reviewLargeFile: { ...file, patch: hunk.content, additions: hunk.additions }
hunkFile(file, hunk) ==
  [patch |-> hunk.lines, additions |-> hunk.additions, hasAdditions |-> TRUE]

promptsOf(file, hunks) == [i \in DOMAIN hunks |-> buildPrompt(hunkFile(file, hunks[i]))]

\* reviewFile and reviewLargeFile: the prompts built for a file, in order
reviewFilePrompts(file) ==
  IF reviewFileRoute(file) = "chunks"
  THEN promptsOf(file, splitIntoHunks(file.patch))
  ELSE << buildPrompt(file) >>

(***************************************************************************)
(* The patches the segmentation is applied to: header lines followed by    *)
(* hunks, every line different from every other, and patches of a given    *)
(* length made of added lines.                                             *)
(***************************************************************************)
MaxHunks == 2

HeaderSizes == {0, 1, 2, 12}

BodySizes == {0, 1, 3, 100, 101, 150}

HeaderLine(k) ==
  IF k = 1 THEN "--- a/f" ELSE IF k = 2 THEN "+++ b/f" ELSE "index " \o ToString(k)

BodyLine(j, k) ==
  (CASE k % 3 = 1 -> "+" [] k % 3 = 2 -> "-" [] OTHER -> " ")
    \o ToString(j) \o "." \o ToString(k)

HunkOf(j, n) == << "@@ " \o ToString(j) >> \o [k \in 1..n |-> BodyLine(j, k)]

Diff(h, sizes) ==
  [k \in 1..h |-> HeaderLine(k)] \o Concat([j \in 1..Len(sizes) |-> HunkOf(j, sizes[j])])

CountAdded(lines) ==
  Cardinality({ i \in DOMAIN lines : startsWith(lines[i], "+") /\ ~startsWith(lines[i], "+++") })

\* String.prototype.split('\n') of the empty patch is one empty line
Diffs ==
  { IF h = 0 /\ sizes = << >> THEN << "" >> ELSE Diff(h, sizes) :
      h \in HeaderSizes, sizes \in UNION { [1..n -> BodySizes] : n \in 0..MaxHunks } }

RECURSIVE Pad(_)
Pad(n) ==
  IF n <= 0 THEN ""
  ELSE LET half == Pad(n \div 2) IN half \o half \o (IF n % 2 = 1 THEN "x" ELSE "")

\* a hunk of added lines followed by context lines
AddedHunk(j, added, context) ==
  << "@@ " \o ToString(j) >> \o [k \in 1..added |-> "+" \o ToString(j) \o "." \o ToString(k)]
    \o [k \in 1..context |-> " " \o ToString(j) \o "." \o ToString(k)]

\* the lines, the last one lengthened so that the patch has length characters
Padded(lines, length) ==
  [lines EXCEPT ![Len(lines)] = @ \o Pad(length - Len(join(lines)))]

AddedPatches ==
  { << AddedHunk(1, 80, 0) >>, << AddedHunk(1, 80, 40) >>,
    << AddedHunk(1, 40, 0), AddedHunk(2, 40, 0) >>,
    << AddedHunk(1, 20, 0), AddedHunk(2, 20, 0), AddedHunk(3, 20, 0), AddedHunk(4, 20, 0) >>,
    << AddedHunk(1, 50, 0) >>, << AddedHunk(1, 25, 0), AddedHunk(2, 26, 0) >> }

PatchLengths == {3000, 3001, 4000}

\* the values of file.additions tried with a patch of a given length
AdditionValues == {0, 1, 50, 51, 99, 100, 101, 200}

\* the lengths of a first line about the smallest budget
BoundaryLengths == {1499, 1500, 1501}

BoundaryTails == { << >>, << " t" >>, << " t", " u" >>, << " " \o Pad(748), " " \o Pad(749), " v" >> }

\* patches of context lines: a line of Pad(n), or two lines whose join has
\* baseLength characters, followed by further lines
BoundaryPatches ==
  { << " " \o Pad(n - 1) >> \o tail : n \in BoundaryLengths, tail \in BoundaryTails }
    \cup { << " " \o Pad(748), " " \o Pad(749) >> \o tail : tail \in BoundaryTails }

\* patches with added and removed lines before the first @@ line, or
\* without any @@ line
UnmarkedPatches ==
  { << "+a", "-b", "+++ c", "--- d", " e" >>,
    << "+a", "-b", "@@ 1", "+c", "--- d", "+++ e", "-f", "++g", "--h" >> }

Files ==
  { [patch |-> d, additions |-> CountAdded(d), hasAdditions |-> TRUE] : d \in Diffs }
    \cup { [patch |-> Padded(Concat(hs), length), additions |-> CountAdded(Concat(hs)),
             hasAdditions |-> TRUE] :
             hs \in AddedPatches, length \in PatchLengths }
    \cup { [patch |-> Padded(<< "@@ 1", "+a", " b" >>, length), additions |-> a,
             hasAdditions |-> TRUE] :
             length \in PatchLengths, a \in AdditionValues }
    \cup { [patch |-> Padded(<< "@@ 1", "+a", " b" >>, length), additions |-> 0,
             hasAdditions |-> FALSE] :
             length \in PatchLengths }
    \cup { [patch |-> d, additions |-> 0, hasAdditions |-> h] :
             d \in BoundaryPatches, h \in BOOLEAN }
    \cup { [patch |-> d, additions |-> CountAdded(d), hasAdditions |-> TRUE] :
             d \in UnmarkedPatches }

SegmentIdle ==
  /\ sFile = [patch |-> << >>, additions |-> 0, hasAdditions |-> TRUE]
  /\ sChunks = << >>
  /\ sSplit = FALSE
  /\ sRoute = "none"
  /\ sCalls = 0
  /\ sPrompts = << >>

SegmentInit ==
  /\ sFile \in Files
  /\ sChunks = << >>
  /\ sSplit = FALSE
  /\ sRoute = "none"
  /\ sCalls = 0
  /\ sPrompts = << >>

SplitCalled ==
  /\ ~sSplit
  /\ sChunks' = splitIntoHunks(sFile.patch)
  /\ sSplit' = TRUE
  /\ UNCHANGED << triggerVars, reviewVars, moreVars, filterVars, parseVars, sFile, sRoute, sCalls, sPrompts >>

FileRouted ==
  /\ sRoute = "none"
  /\ sRoute' = reviewFileRoute(sFile)
  /\ sCalls' = reviewFileCalls(sFile)
  /\ sPrompts' = reviewFilePrompts(sFile)
  /\ UNCHANGED << triggerVars, reviewVars, moreVars, filterVars, parseVars, sFile, sChunks, sSplit >>

(***************************************************************************)
(* JSON texts and values.  A text is a string; a value is a record of one  *)
(* shape for every type: num and scale hold a number num / 10^scale (a     *)
(* boolean has num 1 or 0), str a string, keys the property names of an    *)
(* object, items the elements of an array or the property values of an     *)
(* object.  undefined is the value of a property that is absent.           *)
(***************************************************************************)
\* the characters i to j of s, the first one being character 1
substring(s, i, j) ==
  LET to == IF j < Len(s) THEN j ELSE Len(s)
  IN  IF i < 1 \/ i > to THEN "" ELSE SubSeq(s, i, to)

charAt(s, i) == substring(s, i, i)

whitespace == {" ", "\n", "\t", "\r"}

digits == "0123456789"

isDigit(c) == \E d \in 1..10 : charAt(digits, d) = c

digitOf(c) == (CHOOSE d \in 1..10 : charAt(digits, d) = c) - 1

JValue(type, num, scale, str, keys, items) ==
  [type |-> type, num |-> num, scale |-> scale, str |-> str, keys |-> keys, items |-> items]

undefined == JValue("undefined", 0, 0, "", << >>, << >>)

JNull == JValue("null", 0, 0, "", << >>, << >>)

JBoolean(b) == JValue("boolean", IF b THEN 1 ELSE 0, 0, "", << >>, << >>)

\* num / 10^scale without trailing zeros in the fraction
RECURSIVE JNumber(_, _)
JNumber(num, scale) ==
  IF scale > 0 /\ num % 10 = 0 THEN JNumber(num \div 10, scale - 1)
  ELSE JValue("number", num, scale, "", << >>, << >>)

JString(str) == JValue("string", 0, 0, str, << >>, << >>)

JArray(items) == JValue("array", 0, 0, "", << >>, items)

JObject(keys, items) == JValue("object", 0, 0, "", keys, items)

\* the outcome of reading a value: the value and the position after it
Read(value, next) == [ok |-> TRUE, value |-> value, next |-> next]

SyntaxError == [ok |-> FALSE, value |-> undefined, next |-> 0]

RECURSIVE skipWhitespace(_, _)
skipWhitespace(s, i) ==
  IF charAt(s, i) \in whitespace THEN skipWhitespace(s, i + 1) ELSE i

\* String.prototype.trim
RECURSIVE trimEnd(_)
trimEnd(s) ==
  IF Len(s) > 0 /\ charAt(s, Len(s)) \in whitespace THEN trimEnd(substring(s, 1, Len(s) - 1))
  ELSE s

trim(s) == trimEnd(substring(s, skipWhitespace(s, 1), Len(s)))

\* the character an escape sequence stands for; the escapes \b, \f and \u
\* do not occur in the responses
unescape(c) ==
  CASE c = "n" -> "\n" [] c = "t" -> "\t" [] c = "r" -> "\r" [] OTHER -> c

RECURSIVE readString(_, _, _)

\* the character c at position i of a string literal, str read before it
stringWith(s, i, str, c) ==
  IF c = "" THEN SyntaxError
  ELSE IF c = "\"" THEN Read(JString(str), i + 1)
  ELSE IF c = "\\"
  THEN IF charAt(s, i + 1) \in {"\"", "\\", "/", "n", "t", "r"}
       THEN readString(s, i + 2, str \o unescape(charAt(s, i + 1)))
       ELSE SyntaxError
  ELSE IF c \in {"\n", "\t", "\r"} THEN SyntaxError
  ELSE readString(s, i + 1, str \o c)

\* the characters of a string literal from position i on, str read so far
readString(s, i, str) == stringWith(s, i, str, charAt(s, i))

\* the digits from position i on: their number and the number they denote
RECURSIVE readDigits(_, _, _, _)
readDigits(s, i, num, count) ==
  IF isDigit(charAt(s, i))
  THEN readDigits(s, i + 1, 10 * num + digitOf(charAt(s, i)), count + 1)
  ELSE [num |-> num, count |-> count, next |-> i]

\* a number without exponent (exponents do not occur in the responses):
\* the fraction digits read after the point
numberWithFraction(sign, fraction) ==
  IF fraction.count = 0 THEN SyntaxError
  ELSE Read(JNumber(sign * fraction.num, fraction.count), fraction.next)

\* the integer digits read from position start on
numberWithInt(s, start, sign, int) ==
  IF int.count = 0 \/ (int.count > 1 /\ charAt(s, start) = "0") THEN SyntaxError
  ELSE IF charAt(s, int.next) = "."
  THEN numberWithFraction(sign, readDigits(s, int.next + 1, int.num, 0))
  ELSE Read(JNumber(sign * int.num, 0), int.next)

numberAt(s, start, sign) == numberWithInt(s, start, sign, readDigits(s, start, 0, 0))

readNumber(s, i) ==
  numberAt(s, IF charAt(s, i) = "-" THEN i + 1 ELSE i, IF charAt(s, i) = "-" THEN -1 ELSE 1)

RECURSIVE readValue(_, _)
RECURSIVE readElements(_, _, _)
RECURSIVE readMembers(_, _, _, _)

\* after an element of an array: a comma and the next element, or ]
elementEnded(s, items, after) ==
  IF charAt(s, after) = "," THEN readElements(s, after + 1, items)
  ELSE IF charAt(s, after) = "]" THEN Read(JArray(items), after + 1)
  ELSE SyntaxError

elementRead(s, items, element) ==
  IF ~element.ok THEN SyntaxError
  ELSE elementEnded(s, Append(items, element.value), skipWhitespace(s, element.next))

\* the elements of an array from position i on, after [ or after a comma
readElements(s, i, items) == elementRead(s, items, readValue(s, skipWhitespace(s, i)))

\* after a member of an object: a comma and the next member, or }
memberEnded(s, keys, items, after) ==
  IF charAt(s, after) = "," THEN readMembers(s, after + 1, keys, items)
  ELSE IF charAt(s, after) = "}" THEN Read(JObject(keys, items), after + 1)
  ELSE SyntaxError

memberRead(s, keys, items, member) ==
  IF ~member.ok THEN SyntaxError
  ELSE memberEnded(s, keys, Append(items, member.value), skipWhitespace(s, member.next))

colonAt(s, keys, items, colon) ==
  IF charAt(s, colon) # ":" THEN SyntaxError
  ELSE memberRead(s, keys, items, readValue(s, skipWhitespace(s, colon + 1)))

keyRead(s, keys, items, key) ==
  IF ~key.ok THEN SyntaxError
  ELSE colonAt(s, Append(keys, key.value.str), items, skipWhitespace(s, key.next))

keyAt(s, k, keys, items) ==
  IF charAt(s, k) # "\"" THEN SyntaxError
  ELSE keyRead(s, keys, items, readString(s, k + 1, ""))

\* the members of an object from position i on, after { or after a comma
readMembers(s, i, keys, items) == keyAt(s, skipWhitespace(s, i), keys, items)

\* the value that begins at position i with character c; next is the
\* position of what follows c and whitespace
valueAt(s, i, c, next) ==
  IF c = "[" THEN IF charAt(s, next) = "]" THEN Read(JArray(<< >>), next + 1)
                  ELSE readElements(s, i + 1, << >>)
  ELSE IF c = "{" THEN IF charAt(s, next) = "}" THEN Read(JObject(<< >>, << >>), next + 1)
                       ELSE readMembers(s, i + 1, << >>, << >>)
  ELSE IF c = "\"" THEN readString(s, i + 1, "")
  ELSE IF c = "-" \/ isDigit(c) THEN readNumber(s, i)
  ELSE IF substring(s, i, i + 3) = "null" THEN Read(JNull, i + 4)
  ELSE IF substring(s, i, i + 3) = "true" THEN Read(JBoolean(TRUE), i + 4)
  ELSE IF substring(s, i, i + 4) = "false" THEN Read(JBoolean(FALSE), i + 5)
  ELSE SyntaxError

readValue(s, i) == valueAt(s, i, charAt(s, i), skipWhitespace(s, i + 1))

\* the outcome of JSON.parse when read is what was read from the start of text
parsed(text, read) ==
  IF read.ok /\ skipWhitespace(text, read.next) = Len(text) + 1
  THEN [ok |-> TRUE, value |-> read.value]
  ELSE [ok |-> FALSE, value |-> undefined]

\* JSON.parse: ok is FALSE when it throws a SyntaxError
JSONparse(text) == parsed(text, readValue(text, skipWhitespace(text, 1)))

(***************************************************************************)
(* repairIncompleteJson and parseGeminiResponse (core-reviewer.ts).        *)
(***************************************************************************)
\* c repeated n times, nothing when n is not positive
RECURSIVE repeat(_, _)
repeat(c, n) == IF n <= 0 THEN "" ELSE c \o repeat(c, n - 1)

\* the locals of repairIncompleteJson before its loop
NoScan ==
  [escaped |-> FALSE, inString |-> FALSE, openBrackets |-> 0, openBraces |-> 0,
   lastCompleteObjectIndex |-> -1]

\* one iteration of the loop of repairIncompleteJson, i counted from 0
scanStep(st, char, i) ==
  IF st.escaped THEN [st EXCEPT !.escaped = FALSE]
  ELSE IF char = "\\" THEN [st EXCEPT !.escaped = TRUE]
  ELSE IF char = "\"" THEN [st EXCEPT !.inString = ~st.inString]
  ELSE IF st.inString THEN st
  ELSE IF char = "[" THEN [st EXCEPT !.openBrackets = @ + 1]
  ELSE IF char = "]" THEN [st EXCEPT !.openBrackets = @ - 1]
  ELSE IF char = "{" THEN [st EXCEPT !.openBraces = @ + 1]
  ELSE IF char = "}"
  THEN [st EXCEPT !.openBraces = @ - 1,
                  !.lastCompleteObjectIndex =
                     IF st.openBraces - 1 = 0 /\ st.openBrackets = 1 THEN i ELSE @]
  ELSE st

\* the loop over the characters from to to (counted from 1), computed by
\* halves, the first half before the second
RECURSIVE scanLoop(_, _, _, _)
scanLoop(s, from, to, st) ==
  IF from > to THEN st
  ELSE IF from = to THEN scanStep(st, charAt(s, from), from - 1)
  ELSE LET half == (from + to) \div 2
           first == scanLoop(s, from, half, st)
       IN  IF first.escaped \in BOOLEAN THEN scanLoop(s, half + 1, to, first) ELSE first

\* the text returned when st is what the loop left for repairedJson
balanced(repairedJson, st) ==
  (IF (st.openBraces > 0 \/ st.openBrackets > 1) /\ st.lastCompleteObjectIndex > -1
   THEN substring(repairedJson, 1, st.lastCompleteObjectIndex + 1)
   ELSE repairedJson)
    \o repeat("}", st.openBraces) \o repeat("]", st.openBrackets)

scanned(repairedJson) ==
  balanced(repairedJson, scanLoop(repairedJson, 1, Len(repairedJson), NoScan))

repairIncompleteJson(jsonString) == scanned(trim(jsonString))

\* String.prototype.indexOf for one character: its first position counted
\* from 1, 0 when it does not occur
indexOf(s, c) ==
  LET at == { i \in 1..Len(s) : charAt(s, i) = c }
  IN  IF at = {} THEN 0 ELSE CHOOSE i \in at : \A k \in at : i <= k

lastIndexOf(s, c) ==
  LET at == { i \in 1..Len(s) : charAt(s, i) = c }
  IN  IF at = {} THEN 0 ELSE CHOOSE i \in at : \A k \in at : i >= k

\* response.match(/\[[\s\S]*\]/): from the first [ to the last ] after it
matchArray(response) ==
  LET open == indexOf(response, "[")
      close == lastIndexOf(response, "]")
  IN  IF open > 0 /\ close > open
      THEN [found |-> TRUE, text |-> substring(response, open, close)]
      ELSE [found |-> FALSE, text |-> ""]

\* comment.key; reading a property of null throws and is not modelled here
property(comment, key) ==
  LET at == { i \in DOMAIN comment.keys : comment.keys[i] = key }
  IN  IF comment.type # "object" \/ at = {} THEN undefined
      ELSE comment.items[CHOOSE i \in at : \A k \in at : i >= k]

\* !value is false
truthy(value) ==
  CASE value.type \in {"undefined", "null"} -> FALSE
    [] value.type \in {"boolean", "number"} -> value.num # 0
    [] value.type = "string" -> value.str # ""
    [] OTHER -> TRUE

severities == {"error", "warning", "info"}

\* the callback of comments.filter
keepComment(comment) ==
  LET path == property(comment, "path")
      message == property(comment, "message")
      line == property(comment, "line")
      severity == property(comment, "severity")
  IN  IF ~truthy(path) \/ ~truthy(message) \/ ~truthy(line) \/ ~truthy(severity) THEN FALSE
      ELSE IF ~(severity.type = "string" /\ severity.str \in severities) THEN FALSE
      ELSE IF line.type # "number" \/ line.num <= 0 THEN FALSE
      ELSE TRUE

ReturnedList(comments) == [threw |-> FALSE, returned |-> comments]

TypeError == [threw |-> TRUE, returned |-> << >>]

\* from "Validate that we have an array" on: the callback throws a TypeError
\* when it reads comment.path of a null element
validComments(jsonData) ==
  IF jsonData.type # "array" THEN ReturnedList(<< >>)
  ELSE IF \E i \in DOMAIN jsonData.items : jsonData.items[i].type = "null" THEN TypeError
  ELSE ReturnedList(SelectSeq(jsonData.items, keepComment))

\* the texts parseGeminiResponse hands to JSON.parse, in the order it does:
\* the trimmed response, the text matched, and the repair of the text matched
\* or else of the response from its first [ on
attemptsWith(response, jsonMatch, arrayStart) ==
  << trim(response) >>
    \o (IF jsonMatch.found THEN << jsonMatch.text >> ELSE << >>)
    \o (IF jsonMatch.found \/ arrayStart # 0
        THEN << repairIncompleteJson(IF jsonMatch.found THEN jsonMatch.text
                                     ELSE substring(response, arrayStart, Len(response))) >>
        ELSE << >>)

attempts(response) == attemptsWith(response, matchArray(response), indexOf(response, "["))

\* jsonData: what the first attempt that succeeds gives, the first attempt
\* succeeding only with an array
firstParsed(results) ==
  LET succeeded == { i \in DOMAIN results :
                       results[i].ok /\ (i > 1 \/ results[i].value.type = "array") }
  IN  IF succeeded = {} THEN [ok |-> FALSE, value |-> undefined]
      ELSE results[CHOOSE i \in succeeded : \A k \in succeeded : i <= k]

parsedAttempts(texts) == firstParsed([i \in DOMAIN texts |-> JSONparse(texts[i])])

\* after the attempts: return [] when all failed, else validate and filter
afterAttempts(jsonData) ==
  IF jsonData.ok THEN validComments(jsonData.value) ELSE ReturnedList(<< >>)

\* the body of the outer try of parseGeminiResponse
parseResponse(response) == afterAttempts(parsedAttempts(attempts(response)))

uncaught(body) == [raised |-> body.threw, comments |-> body.returned]

\* what the outer catch makes of the body: the empty list when it threw
caught(body) == [raised |-> FALSE, comments |-> IF body.threw THEN << >> ELSE body.returned]

parseGeminiResponseMut(response) == uncaught(parseResponse(response))

\* parseGeminiResponse
parseGeminiResponse(response) == caught(parseResponse(response))

(***************************************************************************)
(* The responses parseGeminiResponse and repairIncompleteJson are applied  *)
(* to: arrays of well-formed and malformed elements, alone or inside       *)
(* text, arrays of objects cut after any number of characters, and texts   *)
(* without an array.                                                       *)
(***************************************************************************)
MaxElements == 2

commentText(path, line, severity, message) ==
  "{\"path\":" \o path \o ",\"line\":" \o line \o ",\"severity\":" \o severity
    \o ",\"message\":" \o message \o "}"

ElementTexts ==
  { commentText("\"a.ts\"", "3", "\"error\"", "\"x\""),
    "{\"path\":\"b.ts\",\"line\":1,\"severity\":\"info\",\"message\":\"y\",\"suggestion\":\"z\"}",
    "{\"path\":\"a.ts\",\"line\":3,\"severity\":\"error\"}",
    commentText("\"a.ts\"", "0", "\"warning\"", "\"x\""),
    commentText("\"a.ts\"", "1.5", "\"warning\"", "\"x\""),
    commentText("\"a.ts\"", "3", "\"critical\"", "\"x\""),
    commentText("\"\"", "3", "\"error\"", "\"x\""),
    "null",
    "7" }

CutElements ==
  { "{\"k\":\"v\"}",
    "{\"m\":\"]}\",\"n\":[7]}",
    commentText("\"a.ts\"", "3", "\"error\"", "\"x\"") }

RECURSIVE arrayItems(_)
arrayItems(elements) ==
  IF elements = << >> THEN ""
  ELSE IF Len(elements) = 1 THEN elements[1]
  ELSE elements[1] \o "," \o arrayItems(Tail(elements))

\* the JSON text of the array of the elements
arrayText(elements) == "[" \o arrayItems(elements) \o "]"

\* what the model may write before and after the array
Wrappings == { << "", "" >>, << "Review of the file:\n", "\nDone." >> }

OtherResponses ==
  { "", "No issues found.", "null", "42", "{\"path\":\"a.ts\"}", "]", "] text [",
    "{\"comments\":" \o arrayText(<< commentText("\"a.ts\"", "3", "\"error\"", "\"x\"") >>) \o "}",
    "See [1] and [2]." }

ParseIdle ==
  /\ pResponse = ""
  /\ pElements = << >>
  /\ pCut = 0
  /\ pParsed = [raised |-> FALSE, comments |-> << >>]
  /\ pCalled = FALSE
  /\ pRepaired = ""
  /\ pRepairCalled = FALSE

ParseInit ==
  /\ \/ \E elements \in UNION { [1..n -> ElementTexts] : n \in 0..MaxElements },
           w \in Wrappings :
          /\ pResponse = w[1] \o arrayText(elements) \o w[2]
          /\ pElements = elements
          /\ pCut = 0
     \/ \E elements \in UNION { [1..n -> CutElements] : n \in 1..MaxElements } :
          \E cut \in 1..(Len(arrayText(elements)) - 1) :
            /\ pResponse = substring(arrayText(elements), 1, cut)
            /\ pElements = elements
            /\ pCut = cut
     \/ /\ pResponse \in OtherResponses
        /\ pElements = << >>
        /\ pCut = 0
  /\ pParsed = [raised |-> FALSE, comments |-> << >>]
  /\ pCalled = FALSE
  /\ pRepaired = ""
  /\ pRepairCalled = FALSE

ParseCalled ==
  /\ ~pCalled
  /\ pParsed' = parseGeminiResponse(pResponse)
  /\ pCalled' = TRUE
  /\ UNCHANGED << triggerVars, reviewVars, moreVars, filterVars, segmentVars,
                  pResponse, pElements, pCut, pRepaired, pRepairCalled >>

RepairCalled ==
  /\ ~pRepairCalled
  /\ pRepaired' = repairIncompleteJson(pResponse)
  /\ pRepairCalled' = TRUE
  /\ UNCHANGED << triggerVars, reviewVars, moreVars, filterVars, segmentVars,
                  pResponse, pElements, pCut, pParsed, pCalled >>

(***************************************************************************)
(* callGemini (core-reviewer.ts).  What axios.post settles with: http is   *)
(* "ok" for a response with a 2xx status, "status" for an error with a     *)
(* response, "noResponse" for an error with a request only and "failed"    *)
(* for any other error.  Of response.data: error is TRUE when data.error   *)
(* is truthy, blockReason is promptFeedback?.blockReason or "" when there  *)
(* is none, hasCandidates is FALSE when data.candidates is absent.  Of a   *)
(* candidate: isNull for a null element, finishReason or "" when absent,   *)
(* content is "absent" without content.parts, "empty" for parts of length  *)
(* 0, else "parts"; hasText is FALSE when parts[0] holds no text.          *)
(***************************************************************************)
MaxCandidates == 2

GeminiText(text) == [threw |-> FALSE, message |-> "", text |-> text]

GeminiError(message) == [threw |-> TRUE, message |-> message, text |-> ""]

candidateTextMut(candidate) ==
  IF candidate.isNull THEN GeminiError("TypeError")
  ELSE IF candidate.finishReason = "MAX_TOKENS"
  THEN GeminiError("No content parts returned from Gemini API")
  ELSE IF candidate.content \in {"absent", "empty"}
  THEN GeminiError("No content parts returned from Gemini API")
  ELSE IF ~candidate.hasText \/ candidate.text = ""
  THEN GeminiError("No text content returned from Gemini API")
  ELSE GeminiText(candidate.text)

\* from const candidate = response.data.candidates[0] on; a finish reason
\* other than STOP is logged only
candidateText(candidate) ==
  IF candidate.isNull THEN GeminiError("TypeError")
  ELSE IF candidate.content \in {"absent", "empty"}
  THEN GeminiError("No content parts returned from Gemini API")
  ELSE IF ~candidate.hasText \/ candidate.text = ""
  THEN GeminiError("No text content returned from Gemini API")
  ELSE GeminiText(candidate.text)

\* the try block after axios.post has resolved
afterPost(data) ==
  IF data.error THEN GeminiError("Gemini API Error")
  ELSE IF data.blockReason # "" THEN GeminiError("Gemini API Safety Block")
  ELSE IF ~data.hasCandidates \/ Len(data.candidates) = 0
  THEN GeminiError("No candidates returned from Gemini API")
  ELSE candidateText(data.candidates[1])

\* the catch block turns an axios error into an error of its own and throws
\* every other error again
callGemini(response) ==
  IF response.http = "status" THEN GeminiError("Gemini API HTTP")
  ELSE IF response.http = "noResponse"
  THEN GeminiError("Gemini API request failed - no response received")
  ELSE IF response.http = "failed" THEN GeminiError("request failed")
  ELSE afterPost(response)

FinishReasons == {"", "STOP", "MAX_TOKENS", "SAFETY"}

NullCandidate ==
  [isNull |-> TRUE, finishReason |-> "", content |-> "absent", hasText |-> FALSE, text |-> ""]

\* the candidates that can stand at index i; a text names its index
CandidatesAt(i) ==
  { NullCandidate }
    \cup { [isNull |-> FALSE, finishReason |-> f, content |-> c, hasText |-> FALSE, text |-> ""] :
             f \in FinishReasons, c \in {"absent", "empty", "parts"} }
    \cup { [isNull |-> FALSE, finishReason |-> f, content |-> "parts", hasText |-> TRUE, text |-> t] :
             f \in FinishReasons, t \in {"", "[] " \o ToString(i)} }

CandidateLists ==
  UNION { { list \in [1..n -> UNION { CandidatesAt(i) : i \in 1..n }] :
              \A i \in 1..n : list[i] \in CandidatesAt(i) } : n \in 0..MaxCandidates }

NoData == [http |-> "ok", error |-> FALSE, blockReason |-> "", hasCandidates |-> FALSE,
           candidates |-> << >>]

Responses ==
  { [NoData EXCEPT !.http = h] : h \in {"status", "noResponse", "failed"} }
    \cup { [NoData EXCEPT !.error = e, !.blockReason = b] : e \in BOOLEAN, b \in {"", "SAFETY"} }
    \cup { [NoData EXCEPT !.error = e, !.blockReason = b, !.hasCandidates = TRUE,
                          !.candidates = list] :
             e \in BOOLEAN, b \in {"", "SAFETY"}, list \in CandidateLists }

ClientIdle ==
  /\ gResponse = NoData
  /\ gResult = GeminiError("")
  /\ gCalled = FALSE

ClientInit ==
  /\ gResponse \in Responses
  /\ gResult = GeminiError("")
  /\ gCalled = FALSE

\* One call of callGemini, from axios.post to the return or the throw.
GeminiCalled ==
  /\ ~gCalled
  /\ gResult' = callGemini(gResponse)
  /\ gCalled' = TRUE
  /\ UNCHANGED << baseVars, retentionVars, signatureVars, authVars, gResponse >>

(***************************************************************************)
(* cleanupOldPRs of both servers, for one pull request.  Time is counted   *)
(* in hours; both servers run cleanupOldPRs once an hour (cron 0 * * * *   *)
(* in the polling server, setInterval of 60 * 60 * 1000 ms in the webhook  *)
(* server).  An entry of processedPRs is present or not; the polling entry *)
(* holds updated_at and head_sha, the webhook entry reviewed_at and        *)
(* head_sha.  The pull request is reviewed and updated in the first        *)
(* MaxReviewHour hours only, and the hours after them are followed until   *)
(* every entry is gone.                                                    *)
(***************************************************************************)
MaxReviewHour == 2

retentionDays == 7

RetentionHours == retentionDays * 24

LastHour == MaxReviewHour + RetentionHours + 2

NoPollingEntry == [present |-> FALSE, updated_at |-> 0, head_sha |-> 0]

NoWebhookEntry == [present |-> FALSE, reviewed_at |-> 0, head_sha |-> 0]

\* cutoffDate is now less seven days; the entries whose date is before it are
\* deleted
pollingCleanupOldPRs(entry, now) ==
  IF entry.present /\ entry.updated_at < now - RetentionHours THEN NoPollingEntry ELSE entry

webhookCleanupOldPRs(entry, now) ==
  IF entry.present /\ entry.reviewed_at < now - RetentionHours THEN NoWebhookEntry ELSE entry

NoCall == [outcome |-> "none", head |-> 0]

\* how reviewPullRequest can end for the pull request: it throws when a fetch
\* or the posting fails, it returns early for a draft ("draft") or when there
\* is nothing to post ("skipped"), it returns after posting ("posted")
reviewPullRequestOutcomes(draft) ==
  IF draft THEN {"threw", "draft"} ELSE {"threw", "skipped", "posted"}

pollRecordAfterMut(entry, outcome, updatedAt, headSha) ==
  IF outcome \in {"threw", "draft"} THEN entry
  ELSE [present |-> TRUE, updated_at |-> updatedAt, head_sha |-> headSha]

\* the entry after 'await reviewPullRequest' in scanRepository: set when the
\* call returned, left alone when it threw
pollRecordAfter(entry, outcome, updatedAt, headSha) ==
  IF outcome = "threw" THEN entry
  ELSE [present |-> TRUE, updated_at |-> updatedAt, head_sha |-> headSha]

RetentionIdle ==
  /\ clock = 0
  /\ gitUpdatedAt = 0
  /\ gitHead = 1
  /\ tPolling = NoPollingEntry
  /\ tWebhook = NoWebhookEntry
  /\ tReviewedAt = [polling |-> 0, webhook |-> 0]
  /\ gitDraft = FALSE
  /\ tLast = NoCall

RetentionInit ==
  /\ clock = 0
  /\ gitUpdatedAt = 0
  /\ gitHead = 1
  /\ tPolling = NoPollingEntry
  /\ tWebhook = NoWebhookEntry
  /\ tReviewedAt = [polling |-> 0, webhook |-> 0]
  /\ gitDraft \in BOOLEAN
  /\ tLast = NoCall

\* GitHub: a push (a new head commit) or another change of the pull request
PullRequestUpdated(push) ==
  /\ clock <= MaxReviewHour
  /\ push => gitHead <= MaxPushes
  /\ gitUpdatedAt' = clock
  /\ gitHead' = IF push THEN gitHead + 1 ELSE gitHead
  /\ UNCHANGED << baseVars, clientVars, signatureVars, authVars, clock, tPolling, tWebhook, tReviewedAt,
                  gitDraft, tLast >>

\* GitHub: the draft pull request is marked ready for review
ReadyForReview ==
  /\ clock <= MaxReviewHour
  /\ gitDraft
  /\ gitDraft' = FALSE
  /\ gitUpdatedAt' = clock
  /\ UNCHANGED << baseVars, clientVars, signatureVars, authVars, clock, gitHead, tPolling, tWebhook,
                  tReviewedAt, tLast >>

\* scanRepository finds the pull request new or with new commits, calls
\* reviewPullRequest and sets its entry when the call returned
PollingReviews ==
  /\ clock <= MaxReviewHour
  /\ ~tPolling.present \/ tPolling.head_sha # gitHead
  /\ \E outcome \in reviewPullRequestOutcomes(gitDraft) :
       /\ tPolling' = pollRecordAfter(tPolling, outcome, gitUpdatedAt, gitHead)
       /\ tReviewedAt' = IF outcome = "threw" THEN tReviewedAt
                         ELSE [tReviewedAt EXCEPT !.polling = clock]
       /\ tLast' = [outcome |-> outcome, head |-> gitHead]
  /\ UNCHANGED << baseVars, clientVars, signatureVars, authVars, clock, gitUpdatedAt, gitHead, tWebhook,
                  gitDraft >>

\* a delivery for a head commit not yet reviewed: processPRReview reviews the
\* pull request and sets its entry
WebhookReviews ==
  /\ clock <= MaxReviewHour
  /\ ~tWebhook.present \/ tWebhook.head_sha # gitHead
  /\ tWebhook' = [present |-> TRUE, reviewed_at |-> clock, head_sha |-> gitHead]
  /\ tReviewedAt' = [tReviewedAt EXCEPT !.webhook = clock]
  /\ UNCHANGED << baseVars, clientVars, signatureVars, authVars, clock, gitUpdatedAt, gitHead, tPolling,
                  gitDraft, tLast >>

\* an hour passes and the hourly timers of both servers run cleanupOldPRs
HourPasses ==
  /\ clock < LastHour
  /\ clock' = clock + 1
  /\ tPolling' = pollingCleanupOldPRs(tPolling, clock + 1)
  /\ tWebhook' = webhookCleanupOldPRs(tWebhook, clock + 1)
  /\ UNCHANGED << baseVars, clientVars, signatureVars, authVars, gitUpdatedAt, gitHead, tReviewedAt,
                  gitDraft, tLast >>

(***************************************************************************)
(* The signature check of POST /webhook.  hSecret.handler is TRUE when     *)
(* WebhookPRReviewer.webhookSecret is not empty, hSecret.auth when the     *)
(* webhookSecret of GitHubAppAuth's configuration is not empty.  Of the    *)
(* x-hub-signature-256 header: present is FALSE for an absent or empty     *)
(* header, sameLength is TRUE when it has as many bytes as the expected    *)
(* signature ('sha256=' and the hex digest of the HMAC-SHA256 of the raw   *)
(* body under the secret), equal when it is the expected signature.        *)
(***************************************************************************)
MaxSignedDeliveries == 2

Signature(present, sameLength, equal) ==
  [present |-> present, sameLength |-> sameLength, equal |-> equal]

Signatures ==
  { Signature(FALSE, FALSE, FALSE), Signature(TRUE, FALSE, FALSE),
    Signature(TRUE, TRUE, FALSE), Signature(TRUE, TRUE, TRUE) }

\* crypto.timingSafeEqual throws for buffers of different lengths
verifyWebhookSignatureMut(signature, webhookSecret) ==
  IF ~signature.present \/ ~webhookSecret THEN "true"
  ELSE IF ~signature.sameLength THEN "throws"
  ELSE IF signature.equal THEN "true" ELSE "false"

verifyWebhookSignature(signature, webhookSecret) ==
  IF ~signature.present \/ ~webhookSecret THEN "false"
  ELSE IF ~signature.sameLength THEN "throws"
  ELSE IF signature.equal THEN "true" ELSE "false"

\* the first statement of the handler: "401" and "500" are the responses
\* that end it, "pass" lets it go on; githubAuth is always set, the
\* constructor throws without it
signatureCheck(secret, signature) ==
  IF ~secret.handler THEN "pass"
  ELSE IF verifyWebhookSignature(signature, secret.auth) = "throws" THEN "500"
  ELSE IF verifyWebhookSignature(signature, secret.auth) = "false" THEN "401"
  ELSE "pass"

NoDelivery == [signature |-> Signature(FALSE, FALSE, FALSE), status |-> ""]

SignatureIdle ==
  /\ hSecret = [handler |-> FALSE, auth |-> FALSE]
  /\ hDeliveries = 0
  /\ hLast = NoDelivery

SignatureInit ==
  /\ hSecret \in [handler : BOOLEAN, auth : BOOLEAN]
  /\ hDeliveries = 0
  /\ hLast = NoDelivery

\* POST /webhook, the whole handler: the signature check, then the payload
SignedDelivery(pr, action, headSha, hasPullRequest, signature, allowed) ==
  /\ hDeliveries < MaxSignedDeliveries
  /\ hDeliveries' = hDeliveries + 1
  /\ IF signatureCheck(hSecret, signature) = "pass"
     THEN /\ HandlePayload(pr, action, headSha, hasPullRequest, allowed)
          /\ hLast' = [signature |-> signature, status |-> "200"]
     ELSE /\ hLast' = [signature |-> signature, status |-> signatureCheck(hSecret, signature)]
          /\ lastDecisions' = {}
          /\ UNCHANGED << deliveries, wProcessed, wTasks, wStarted >>
  /\ lastSettled' = {}
  /\ UNCHANGED << head, everHead, pushes, pollVars, reviewVars, filterVars, segmentVars,
                  parseVars, clientVars, retentionVars, authVars, hSecret >>

SignedWebhook(allowed) ==
  \E pr \in PullRequests, action \in WebhookActions, hasPullRequest \in BOOLEAN :
    \E headSha \in everHead[pr], signature \in Signatures :
      SignedDelivery(pr, action, headSha, hasPullRequest, signature, allowed)

(***************************************************************************)
(* AuthManager (auth-manager.ts).  Times are in days.  authData.users and  *)
(* authData.sessions are plain objects: obj[key] is the own property key   *)
(* or, for a name that Object.prototype defines, the inherited property.   *)
(* authenticate is called with user ids that Object.prototype does not     *)
(* define; saveAuthData is taken to succeed.                               *)
(***************************************************************************)
sessionDays == 30

MaxSessionCalls == 3

MaxAccountCalls == 3

\* the days at which methods are called: the first two, and those a session's
\* life later
Instants == {0, 1, sessionDays, sessionDays + 1}

Null == "null"

PrototypeKeys == {"constructor", "toString"}

propertyAt(obj, key) ==
  IF key \in DOMAIN obj THEN "own" ELSE IF key \in PrototypeKeys THEN "inherited" ELSE "none"

MapDelete(map, key) == [k \in (DOMAIN map) \ {key} |-> map[k]]

\* what a method did: authData after it, the value returned or the error
\* thrown, and whether saveAuthData was called
AuthResult(data, result, saved) == [data |-> data, result |-> result, saved |-> saved]

\* sessionId is what crypto.randomBytes(32).toString('hex') gave
authenticate(data, password, userId, username, sessionId, now) ==
  IF password # data.adminPassword THEN AuthResult(data, Null, FALSE)
  ELSE LET users ==
             IF propertyAt(data.users, userId) = "none"
             THEN MapSet(data.users, userId,
                         [id |-> userId, username |-> username, repositories |-> << >>,
                          createdAt |-> now, lastActivity |-> now])
             ELSE [data.users EXCEPT ![userId].lastActivity = now,
                                     ![userId].username = username]
           sessions == MapSet(data.sessions, sessionId,
                              [userId |-> userId, expiresAt |-> now + sessionDays])
       IN  AuthResult([data EXCEPT !.users = users, !.sessions = sessions], sessionId, TRUE)

\* this.authData.sessions[sessionId]: an inherited property is a function or
\* an object without userId and expiresAt; new Date(undefined) is an invalid
\* date, which is before no date, and users[undefined] is users['undefined']
sessionAt(sessions, sessionId) ==
  IF propertyAt(sessions, sessionId) = "own"
  THEN [truthy |-> TRUE, userId |-> sessions[sessionId].userId, validDate |-> TRUE,
        expiresAt |-> sessions[sessionId].expiresAt]
  ELSE IF propertyAt(sessions, sessionId) = "inherited"
  THEN [truthy |-> TRUE, userId |-> "undefined", validDate |-> FALSE, expiresAt |-> 0]
  ELSE [truthy |-> FALSE, userId |-> "undefined", validDate |-> FALSE, expiresAt |-> 0]

\* the result is the id of the user returned, or null
validateSession(data, sessionId, now) ==
  LET session == sessionAt(data.sessions, sessionId)
  IN  IF ~session.truthy THEN AuthResult(data, Null, FALSE)
      ELSE IF session.validDate /\ session.expiresAt < now
      THEN AuthResult([data EXCEPT !.sessions = MapDelete(@, sessionId)], Null, TRUE)
      ELSE IF propertyAt(data.users, session.userId) = "own"
      THEN AuthResult([data EXCEPT !.users[session.userId].lastActivity = now],
                      session.userId, TRUE)
      ELSE AuthResult(data, Null, FALSE)

\* delete removes an own property only
logout(data, sessionId) ==
  IF sessionAt(data.sessions, sessionId).truthy
  THEN AuthResult([data EXCEPT !.sessions = MapDelete(@, sessionId)], "", TRUE)
  ELSE AuthResult(data, "", FALSE)

\* password is what generatePassword gave
resetPassword(data, password) ==
  AuthResult([data EXCEPT !.adminPassword = password, !.sessions = EmptyMap], password, TRUE)

\* /^[a-zA-Z0-9_.-]+\/[a-zA-Z0-9_.-]+$/
repositoryChars == UpperCase \o LowerCase \o "0123456789" \o "_.-"

isValidRepositoryFormat(repo) ==
  LET slash == indexOf(repo, "/")
  IN  /\ slash > 1
      /\ slash < Len(repo)
      /\ \A i \in 1..Len(repo) : i # slash => indexOf(repositoryChars, charAt(repo, i)) > 0

\* Array.prototype.indexOf, counted from 1, 0 when absent
positionOf(list, item) ==
  LET at == { i \in DOMAIN list : list[i] = item }
  IN  IF at = {} THEN 0 ELSE CHOOSE i \in at : \A k \in at : i <= k

\* an inherited property of users is truthy and has no repositories: reading
\* includes or indexOf of undefined throws a TypeError
addRepository(data, userId, repository, now) ==
  IF propertyAt(data.users, userId) = "none" THEN AuthResult(data, "false", FALSE)
  ELSE IF ~isValidRepositoryFormat(repository) THEN AuthResult(data, "false", FALSE)
  ELSE IF propertyAt(data.users, userId) = "inherited" THEN AuthResult(data, "TypeError", FALSE)
  ELSE IF positionOf(data.users[userId].repositories, repository) = 0
  THEN AuthResult([data EXCEPT !.users[userId].repositories = Append(@, repository),
                               !.users[userId].lastActivity = now], "true", TRUE)
  ELSE AuthResult(data, "true", FALSE)

removeRepository(data, userId, repository, now) ==
  IF propertyAt(data.users, userId) = "none" THEN AuthResult(data, "false", FALSE)
  ELSE IF propertyAt(data.users, userId) = "inherited" THEN AuthResult(data, "TypeError", FALSE)
  ELSE IF positionOf(data.users[userId].repositories, repository) # 0
  THEN AuthResult([data EXCEPT
                     !.users[userId].repositories =
                        Remove(@, positionOf(data.users[userId].repositories, repository)),
                     !.users[userId].lastActivity = now], "true", TRUE)
  ELSE AuthResult(data, "false", FALSE)

Passwords == {"p1", "p2"}

UserIds == {"u1", "undefined"}

Usernames == {"n1", "n2"}

\* user ids that addRepository and removeRepository are called with
AccountIds == UserIds \cup {"u2", "constructor"}

RepositoryNames == {"o/r1", "o-1/r_2.x", "o/r1/x", "or1", "/r1", "o /r1"}

\* the session ids issued so far, one never issued and a name of Object.prototype
SessionIds == { "s" \o ToString(n) : n \in 0..aCalls } \cup {"constructor"}

NoAuthCall ==
  [op |-> "", password |-> "", userId |-> "", sessionId |-> "", repository |-> "",
   result |-> "", saved |-> FALSE, at |-> 0]

AuthCall(op, password, userId, sessionId, repository, r) ==
  [op |-> op, password |-> password, userId |-> userId, sessionId |-> sessionId,
   repository |-> repository, result |-> r.result, saved |-> r.saved, at |-> aNow]

\* the state after the constructor's first run: a generated password, no
\* users and no sessions
AuthIdle ==
  /\ authData = [adminPassword |-> "p1", users |-> EmptyMap, sessions |-> EmptyMap]
  /\ aNow = 0
  /\ aCalls = 0
  /\ aIssued = {}
  /\ aLast = NoAuthCall

AuthInit == AuthIdle

Authenticate(maxCalls, usernames) ==
  \E password \in Passwords, userId \in UserIds, username \in usernames :
    LET sessionId == "s" \o ToString(aCalls + 1)
        r == authenticate(authData, password, userId, username, sessionId, aNow)
    IN  /\ aCalls < maxCalls
        /\ aCalls' = aCalls + 1
        /\ authData' = r.data
        /\ aIssued' = IF r.result # Null
                      THEN aIssued \cup { [id |-> sessionId, at |-> aNow] } ELSE aIssued
        /\ aLast' = AuthCall("authenticate", password, userId, "", "", r)
        /\ UNCHANGED << baseVars, clientVars, retentionVars, signatureVars, aNow >>

ValidateSession(maxCalls) ==
  \E sessionId \in SessionIds :
    LET r == validateSession(authData, sessionId, aNow)
    IN  /\ aCalls < maxCalls
        /\ aCalls' = aCalls + 1
        /\ authData' = r.data
        /\ aLast' = AuthCall("validateSession", "", "", sessionId, "", r)
        /\ UNCHANGED << baseVars, clientVars, retentionVars, signatureVars, aNow, aIssued >>

Logout(maxCalls) ==
  \E sessionId \in SessionIds :
    LET r == logout(authData, sessionId)
    IN  /\ aCalls < maxCalls
        /\ aCalls' = aCalls + 1
        /\ authData' = r.data
        /\ aIssued' = { s \in aIssued : s.id # sessionId }
        /\ aLast' = AuthCall("logout", "", "", sessionId, "", r)
        /\ UNCHANGED << baseVars, clientVars, retentionVars, signatureVars, aNow >>

ResetPassword(maxCalls) ==
  \E password \in Passwords :
    LET r == resetPassword(authData, password)
    IN  /\ aCalls < maxCalls
        /\ aCalls' = aCalls + 1
        /\ authData' = r.data
        /\ aIssued' = {}
        /\ aLast' = AuthCall("resetPassword", "", "", "", "", r)
        /\ UNCHANGED << baseVars, clientVars, retentionVars, signatureVars, aNow >>

AddRepository(maxCalls) ==
  \E userId \in AccountIds, repository \in RepositoryNames :
    LET r == addRepository(authData, userId, repository, aNow)
    IN  /\ aCalls < maxCalls
        /\ aCalls' = aCalls + 1
        /\ authData' = r.data
        /\ aLast' = AuthCall("addRepository", "", userId, "", repository, r)
        /\ UNCHANGED << baseVars, clientVars, retentionVars, signatureVars, aNow, aIssued >>

RemoveRepository(maxCalls) ==
  \E userId \in AccountIds, repository \in RepositoryNames :
    LET r == removeRepository(authData, userId, repository, aNow)
    IN  /\ aCalls < maxCalls
        /\ aCalls' = aCalls + 1
        /\ authData' = r.data
        /\ aLast' = AuthCall("removeRepository", "", userId, "", repository, r)
        /\ UNCHANGED << baseVars, clientVars, retentionVars, signatureVars, aNow, aIssued >>

\* time passes up to a later instant
TimePasses ==
  \E later \in Instants :
    /\ later > aNow
    /\ aNow' = later
    /\ UNCHANGED << baseVars, clientVars, retentionVars, signatureVars, authData, aCalls,
                    aIssued, aLast >>

MoreIdle == ClientIdle /\ RetentionIdle /\ SignatureIdle /\ AuthIdle

TriggerInit ==
  /\ head = [pr \in PullRequests |-> "sha1"]
  /\ everHead = [pr \in PullRequests |-> {"sha1"}]
  /\ pushes = 0
  /\ deliveries = 0
  /\ wProcessed = EmptyMap
  /\ wTasks = << >>
  /\ wStarted = [k \in PrKeys \X Shas |-> 0]
  /\ pProcessed = EmptyMap
  /\ pScans = << NewScan >>
  /\ lastDecisions = {}
  /\ lastSettled = {}

Init == TriggerInit /\ ReviewIdle /\ FilterIdle /\ SegmentIdle /\ ParseIdle /\ MoreIdle

InitReview == TriggerInit /\ ReviewInit /\ FilterIdle /\ SegmentIdle /\ ParseIdle /\ MoreIdle

NextReview ==
  \/ ReviewStarts(MaxRuns)
  \/ OctokitSettles
  \/ PullsGetSettles
  \/ ListFilesSettles
  \/ ExistingCommentsSettle
  \/ ModelCallSettles
  \/ ChunkDelaySettles
  \/ CreateReviewSettles

SpecReview == InitReview /\ [][NextReview]_vars

NextInvocation ==
  \/ ReviewStarts(MaxInvocations)
  \/ OctokitSettles
  \/ PullsGetSettles
  \/ ListFilesSettles
  \/ ExistingCommentsSettle
  \/ ModelCallSettles
  \/ ChunkDelaySettles
  \/ CreateReviewSettles

SpecInvocation == InitReview /\ [][NextInvocation]_vars

InitFilter == TriggerInit /\ ReviewIdle /\ FilterInit /\ SegmentIdle /\ ParseIdle /\ MoreIdle

NextFilter == FilterCalled

SpecFilter == InitFilter /\ [][NextFilter]_vars

InitSegment == TriggerInit /\ ReviewIdle /\ FilterIdle /\ SegmentInit /\ ParseIdle /\ MoreIdle

NextSegment == SplitCalled \/ FileRouted

SpecSegment == InitSegment /\ [][NextSegment]_vars

InitParse == TriggerInit /\ ReviewIdle /\ FilterIdle /\ SegmentIdle /\ ParseInit /\ MoreIdle

InitIdle == TriggerInit /\ ReviewIdle /\ FilterIdle /\ SegmentIdle /\ ParseIdle

InitClient == InitIdle /\ ClientInit /\ RetentionIdle /\ SignatureIdle /\ AuthIdle

NextClient == GeminiCalled

SpecClient == InitClient /\ [][NextClient]_vars

InitRetention == InitIdle /\ ClientIdle /\ RetentionInit /\ SignatureIdle /\ AuthIdle

NextRetention ==
  \/ \E push \in BOOLEAN : PullRequestUpdated(push)
  \/ ReadyForReview
  \/ PollingReviews
  \/ WebhookReviews
  \/ HourPasses

SpecRetention == InitRetention /\ [][NextRetention]_vars

InitSignature == InitIdle /\ ClientIdle /\ RetentionIdle /\ SignatureInit /\ AuthIdle

NextSignature ==
  \/ SignedWebhook(TRUE)
  \/ ProcessPRReviewWakes
  \/ ProcessPRReviewSettles

SpecSignature == InitSignature /\ [][NextSignature]_vars

InitAuth == InitIdle /\ ClientIdle /\ RetentionIdle /\ SignatureIdle /\ AuthInit

NextSession ==
  \/ Authenticate(MaxSessionCalls, {"n1"})
  \/ ValidateSession(MaxSessionCalls)
  \/ Logout(MaxSessionCalls)
  \/ ResetPassword(MaxSessionCalls)
  \/ TimePasses

SpecSession == InitAuth /\ [][NextSession]_vars

NextAccount ==
  \/ Authenticate(MaxAccountCalls, Usernames)
  \/ AddRepository(MaxAccountCalls)
  \/ RemoveRepository(MaxAccountCalls)

SpecAccount == InitAuth /\ [][NextAccount]_vars

NextParse == ParseCalled \/ RepairCalled

SpecParse == InitParse /\ [][NextParse]_vars

\* the pushes, reviewed deliveries and cron ticks so far
Events == pushes + deliveries + (Len(pScans) - 1)

Next ==
  \/ PushCommit(Events < MaxBothEvents)
  \/ Webhook(Events < MaxBothEvents)
  \/ ProcessPRReviewWakes
  \/ ProcessPRReviewSettles
  \/ ScanLoaded
  \/ ScanListed
  \/ ScanReviewSettles
  \/ ScanSlept
  \/ CronTick(Events < MaxBothEvents)

Spec == Init /\ [][Next]_vars

(***************************************************************************)
(* The webhook server alone, and the polling server alone.                 *)
(***************************************************************************)
NextWebhook ==
  \/ PushCommit(pushes < MaxPushes)
  \/ Webhook(deliveries < MaxDeliveries)
  \/ ProcessPRReviewWakes
  \/ ProcessPRReviewSettles

SpecWebhook == Init /\ [][NextWebhook]_vars

(***************************************************************************)
(* Both servers without pushes and cron ticks, with the history of the     *)
(* calls of reviewPullRequest that settled.                                *)
(***************************************************************************)
MaxMarkDeliveries == 2

NextMark ==
  \/ Webhook(deliveries < MaxMarkDeliveries)
  \/ ProcessPRReviewWakes
  \/ ProcessPRReviewSettled(TRUE)
  \/ ScanLoaded
  \/ ScanListed
  \/ ScanReviewSettled(TRUE)
  \/ ScanSlept

SpecMark == Init /\ [][NextMark]_vars

NextPoll ==
  \/ PushCommit(pushes < MaxPushes)
  \/ ScanLoaded
  \/ ScanListed
  \/ ScanReviewSettles
  \/ ScanSlept
  \/ CronTick(Len(pScans) - 1 < MaxCronTicks)

SpecPoll == Init /\ [][NextPoll]_vars

(***************************************************************************)
(* Properties of the two triggering paths.                                 *)
(***************************************************************************)

\* C1: in the webhook path reviewPullRequest is started at most once for a
\* pull request and head commit, whatever the deliveries and their timing.
C1_AtMostOneReviewPerCommit ==
  \A k \in PrKeys \X Shas : wStarted[k] <= 1

\* C3: a trigger for a pull request at commit S, taken by one path while the
\* other path holds a record of that pull request at S, starts no review.
C3_NoReviewAcrossPaths ==
  \A d \in lastDecisions : d.other = d.sha => ~d.review

\* C4: every decision of a poll scan or of a webhook delivery starts a review
\* iff the deciding server has no record of the pull request or its record
\* holds another commit than the trigger's.
C4_ReviewDecision ==
  \A d \in lastDecisions : d.review <=> (d.own = None \/ d.own # d.sha)

\* one step of a scan skips a pull request recorded at sha1 whose head is sha1
\* and reviews a pull request recorded at sha1 whose head is sha2
C4_Witness ==
  \E d, e \in lastDecisions :
    /\ d.via = "poll" /\ d.own = "sha1" /\ d.sha = "sha1" /\ ~d.review
    /\ e.via = "poll" /\ e.own = "sha1" /\ e.sha = "sha2" /\ e.review

\* C5: in the polling server at most one reviewPullRequest is in flight.
C5_OneReviewInFlight ==
  Cardinality({ i \in DOMAIN pScans : pScans[i].pc = "review" }) <= 1

\* the pull requests of list from index from on that the scan has to review
ToReview(r, list, from) ==
  { k \in from..Len(list) :
      LET key == r.owner \o "/" \o r.repo \o "#" \o ToString(list[k].number)
      IN  key \notin DOMAIN pProcessed \/ pProcessed[key].head_sha # list[k].sha }

\* scan s, in repository s.repo with list from index from on left, became t
WentOn(s, t, list, from) ==
  LET left == ToReview(Repositories[s.repo], list, from)
  IN  IF left # {}
      THEN /\ t.pc = "review" /\ t.repo = s.repo /\ t.list = list
           /\ t.idx \in left /\ \A k \in left : t.idx <= k
      ELSE IF s.repo < Len(Repositories)
      THEN t.pc = "list" /\ t.repo = s.repo + 1
      ELSE t.pc = "done"

\* C11: when reviewPullRequest throws for a pull request, the scan goes on
\* with the next pull request of the list that needs a review, or else with
\* the next repository; and after listing a repository, whatever the listing
\* returned, the scan goes on with that repository's pull requests or with
\* the next repository.  It ends only after the last repository.
C11_ScanGoesOn ==
  [][\A i \in DOMAIN pScans :
       LET s == pScans[i]
           t == pScans'[i]
       IN  /\ (s.pc = "review" /\ t # s /\ t.pc # "sleep") => WentOn(s, t, s.list, s.idx + 1)
           /\ (s.pc = "list" /\ t # s) =>
                 WentOn(s, t, IF t.pc = "review" THEN t.list ELSE << >>, 1)]_vars

\* the review of the first pull request of o/r1 threw, no record was written
\* and the scan is reviewing the second one
C11_Witness ==
  \E i \in DOMAIN pScans :
    /\ pScans[i].pc = "review"
    /\ pScans[i].repo = 1
    /\ pScans[i].idx = 2
    /\ pProcessed = EmptyMap

(***************************************************************************)
(* Properties of reviewPullRequest.                                        *)
(***************************************************************************)
LoopFinished == run.loopDone

\* the inline comments of the reviews that invocations of reviewPullRequest
\* posted before the current one
EarlierPosted ==
  { rReviews[i].comments[j] :
      <<i, j>> \in { p \in (1..run.reviewsBefore) \X (1..4) :
                       /\ rReviews[p[1]] # EarlierReview
                       /\ p[2] \in DOMAIN rReviews[p[1]].comments } }

\* C2: in a run that fetched the reviews of the pull request, the keys of
\* getExistingComments contain path:line of every inline comment an earlier
\* run posted, and no comment at such a path and line is posted again.
C2_OwnCommentsRecognised ==
  (run.existingFetch = "ok") =>
    \A posted \in EarlierPosted :
      /\ (posted.path \o ":" \o ToString(posted.line)) \in run.existing
      /\ \A i \in DOMAIN run.requests : \A j \in DOMAIN run.requests[i].comments :
           ~(/\ run.requests[i].comments[j].path = posted.path
             /\ run.requests[i].comments[j].line = posted.line)

\* C6: every createReview request of reviewPullRequest has the event COMMENT.
C6_AlwaysCommentEvent ==
  \A i \in DOMAIN run.requests : run.requests[i].event = "COMMENT"

\* a review with an error finding was posted
C6_Witness ==
  /\ run.postResult = "ok"
  /\ \E i \in DOMAIN run.requests :
       Includes(run.requests[i].body, "error(s) found")

\* the skip cases of an invocation
IsDraft == run.prFetch = "ok" /\ rPR.draft

IsNotOpen == run.prFetch = "ok" /\ rPR.state # "open"

NoChangedFiles == run.filesFetch = "ok" /\ Len(rFiles) = 0

NoReviewableFiles ==
  run.filesFetch = "ok" /\ \A i \in DOMAIN rFiles : ~isReviewableFile(rFiles[i])

NothingNew ==
  /\ LoopFinished
  /\ \A i \in DOMAIN run.allComments :
       (run.allComments[i].path \o ":" \o ToString(run.allComments[i].line)) \in run.existing

\* C7: an invocation calls createReview at most once, and in a skip case
\* (draft, not open, no changed files, no reviewable files, nothing new after
\* deduplication) it calls it not at all and returns normally.
C7_PostsAtMostOnce ==
  /\ Len(run.requests) <= 1
  /\ Len(rReviews) <= run.reviewsBefore + 1
  /\ (IsDraft \/ IsNotOpen \/ NoChangedFiles \/ NoReviewableFiles \/ NothingNew) =>
       /\ run.requests = << >>
       /\ Len(rReviews) = run.reviewsBefore
       /\ run.pc = "done"
       /\ run.outcome = "returned"

\* the model produced comments, all of them at lines already commented, and
\* the invocation returned without posting
C7_Witness ==
  /\ NothingNew
  /\ run.allComments # << >>
  /\ run.outcome = "returned"
  /\ run.requests = << >>

\* the model calls an invocation has to make: for every reviewable file with
\* a patch, in order, one call, or one call per chunk of a large file
RECURSIVE ExpectedCalls(_, _)
ExpectedCalls(files, i) ==
  IF i > Len(files) THEN << >>
  ELSE (IF files[i].patchLength > 0
        THEN [k \in 1..(IF files[i].patchLength > 3000 /\ files[i].additions > 50
                        THEN files[i].hunks ELSE 1) |-> << i, k >>]
        ELSE << >>) \o ExpectedCalls(files, i + 1)

CallsMade == [i \in DOMAIN run.calls |-> << run.calls[i].file, run.calls[i].chunk >>]

AnswersOfCalls ==
  Concat([i \in DOMAIN run.calls |->
            IF run.calls[i].answered THEN run.calls[i].answer ELSE << >>])

FileFailed(f) == \E i \in DOMAIN run.calls : run.calls[i].file = f /\ ~run.calls[i].answered

AnswersOfSucceededFiles ==
  Concat([i \in DOMAIN run.calls |->
            IF FileFailed(run.calls[i].file) THEN << >> ELSE run.calls[i].answer])

\* C9 as stated: the comments passed to deduplication are those of the files
\* none of whose model calls failed; a file with a failed call contributes
\* no comment.
C9_FailedFileContributesNothing ==
  LoopFinished => run.allComments = AnswersOfSucceededFiles

\* C9 as amended: failures of model calls never end the invocation, every
\* file and chunk is still analysed, and the comments passed to deduplication
\* are exactly those of the model calls that succeeded, in file and chunk
\* order.
C9_CallIsolation ==
  /\ (run.calls # << >> /\ run.pc = "done") => LoopFinished
  /\ LoopFinished =>
       /\ CallsMade = ExpectedCalls(run.reviewable, 1)
       /\ run.allComments = AnswersOfCalls

\* the call of one file failed and a later file brought comments
C9_Witness ==
  /\ LoopFinished
  /\ \E i, j \in DOMAIN run.calls :
       /\ i < j
       /\ ~run.calls[i].answered
       /\ run.calls[i].file < run.calls[j].file
       /\ run.calls[j].answered
       /\ run.calls[j].answer # << >>
  /\ run.allComments # << >>

\* C10: when fetching the pull request or its files fails, the invocation
\* throws and posts nothing.
C10_FetchFailurePropagates ==
  (run.prFetch = "failed" \/ run.filesFetch = "failed") =>
    /\ run.pc = "done"
    /\ run.outcome = "threw"
    /\ run.requests = << >>
    /\ Len(rReviews) = run.reviewsBefore

\* listing the files failed in an invocation on a pull request that already
\* has a review
C10_Witness ==
  /\ run.filesFetch = "failed"
  /\ run.outcome = "threw"
  /\ run.reviewsBefore = 1

(***************************************************************************)
(* Properties of filterDuplicateComments.                                  *)
(***************************************************************************)
KeptIndexes ==
  { i \in DOMAIN fComments :
      (fComments[i].path \o ":" \o ToString(fComments[i].line)) \notin fExisting }

\* C8: the value of filterDuplicateComments is the list of the comments whose
\* key path:line is not in the existing keys, in their original order,
\* whatever their message, severity and suggestion.
C8_FilterIsSetDifference ==
  fCalled =>
    /\ Len(fResult) = Cardinality(KeptIndexes)
    /\ \A i \in KeptIndexes :
         fResult[Cardinality({ j \in KeptIndexes : j <= i })] = fComments[i]

\* existing = {a.ts:10}; the comments at a.ts:10 are dropped, whatever their
\* message, and the comment at a.ts:11 is returned
C8_Witness ==
  /\ fCalled
  /\ fExisting = { "src/a.ts:10" }
  /\ fComments = << c1, c2, c3 >>
  /\ fResult = << c2 >>


(***************************************************************************)
(* Properties of splitIntoHunks and of the branch reviewFile takes.  The   *)
(* lines of the patches above are all different, so a line stands for its  *)
(* position in the patch.                                                  *)
(***************************************************************************)
linesOf(seq) == { seq[i] : i \in DOMAIN seq }

\* the positions of the @@ lines of a diff
hunkHeaders(diffLines) == { i \in DOMAIN diffLines : startsWith(diffLines[i], "@@") }

\* the lines of a diff before its first @@ line, ten at most
sharedHeader(diffLines) ==
  LET before == { i \in DOMAIN diffLines : \A k \in 1..i : ~startsWith(diffLines[k], "@@") }
  IN  SubSeq(diffLines, 1, IF Cardinality(before) < maxHeaderLines
                           THEN Cardinality(before) ELSE maxHeaderLines)

\* the hunk lines of a diff: its lines from the first @@ line on
hunkLines(diffLines) ==
  LET hs == hunkHeaders(diffLines)
  IN  IF hs = {} THEN << >>
      ELSE SubSeq(diffLines, CHOOSE i \in hs : \A k \in hs : i <= k, Len(diffLines))

\* the hunk whose @@ line is line i: the lines up to the next @@ line or the end
hunkAt(diffLines, i) ==
  LET later == { k \in hunkHeaders(diffLines) : k > i }
  IN  SubSeq(diffLines, i, IF later = {} THEN Len(diffLines)
                           ELSE (CHOOSE k \in later : \A m \in later : k <= m) - 1)

\* the lines of a chunk after the shared header lines
chunkBody(chunk, diffLines) ==
  SubSeq(chunk.lines, Len(sharedHeader(diffLines)) + 1, Len(chunk.lines))

\* C16: for a diff with at least one hunk, the bodies of the chunks of
\* splitIntoHunks (the lines after the shared header lines), concatenated in
\* order, are the hunk lines of the diff, each once and in order.
C16_ChunkCoverage ==
  (sSplit /\ hunkHeaders(sFile.patch) # {}) =>
    Concat([c \in DOMAIN sChunks |-> chunkBody(sChunks[c], sFile.patch)])
      = hunkLines(sFile.patch)

\* C17 as stated: every hunk of the diff, whatever its length, lies in one
\* chunk together with its @@ line.
C17_NoHunkSplit ==
  sSplit =>
    \A i \in hunkHeaders(sFile.patch) :
      \E c \in DOMAIN sChunks :
        linesOf(hunkAt(sFile.patch, i)) \subseteq linesOf(sChunks[c].lines)

\* C17: a hunk of at most maxHunkLines + 1 lines, its @@ line included, lies
\* in one chunk; of a longer hunk the first maxHunkLines + 1 lines lie in one
\* chunk and the next line does not lie in that chunk.
C17_ShortHunksWhole ==
  sSplit =>
    \A i \in hunkHeaders(sFile.patch) :
      LET hunk == hunkAt(sFile.patch, i)
      IN  \E c \in DOMAIN sChunks :
            LET chunk == linesOf(sChunks[c].lines)
            IN  IF Len(hunk) <= maxHunkLines + 1
                THEN linesOf(hunk) \subseteq chunk
                ELSE /\ linesOf(SubSeq(hunk, 1, maxHunkLines + 1)) \subseteq chunk
                     /\ hunk[maxHunkLines + 2] \notin chunk

C17_Witness ==
  /\ sSplit
  /\ \E i \in hunkHeaders(sFile.patch) :
       /\ Len(hunkAt(sFile.patch, i)) = maxHunkLines + 1
       /\ \E c \in DOMAIN sChunks :
            linesOf(hunkAt(sFile.patch, i)) \subseteq linesOf(sChunks[c].lines)
  /\ \E i \in hunkHeaders(sFile.patch) :
       /\ Len(hunkAt(sFile.patch, i)) > maxHunkLines + 1
       /\ \A c \in DOMAIN sChunks :
            ~(linesOf(hunkAt(sFile.patch, i)) \subseteq linesOf(sChunks[c].lines))

\* C18: for a diff with at least one @@ line, every chunk of splitIntoHunks
\* is the shared header lines followed by a body that is not empty and begins
\* with an @@ line.
C18_ChunkShape ==
  (sSplit /\ hunkHeaders(sFile.patch) # {}) =>
    \A c \in DOMAIN sChunks :
      LET body == chunkBody(sChunks[c], sFile.patch)
      IN  /\ sChunks[c].lines = sharedHeader(sFile.patch) \o body
          /\ body # << >>
          /\ startsWith(body[1], "@@")

\* C19: for a diff that is not empty and has no @@ line, splitIntoHunks
\* returns one chunk, and its content is the diff.
C19_WholeDiffOneChunk ==
  (sSplit /\ hunkHeaders(sFile.patch) = {} /\ join(sFile.patch) # "") =>
    /\ Len(sChunks) = 1
    /\ sChunks[1].content = join(sFile.patch)

\* a patch of 4000 characters with 80 additions, reviewed
LargeFileReviewed ==
  /\ sRoute # "none"
  /\ Len(join(sFile.patch)) = 4000
  /\ sFile.additions = 80

isArrayText(text) == JSONparse(text).ok /\ JSONparse(text).value.type = "array"

\* the texts the strategies of parseGeminiResponse hand to JSON.parse
strategyTexts(response) ==
  LET jsonMatch == matchArray(response)
  IN  {trim(response)}
        \cup (IF jsonMatch.found
              THEN {jsonMatch.text, repairIncompleteJson(jsonMatch.text)}
              ELSE IF indexOf(response, "[") # 0
              THEN {repairIncompleteJson(substring(response, indexOf(response, "["),
                                                   Len(response)))}
              ELSE {})

\* a comment as the specification wants it: path and message strings that are
\* not empty, a severity of the closed set, a line that is an integer >= 1
wellFormed(comment) ==
  LET path == property(comment, "path")
      message == property(comment, "message")
      line == property(comment, "line")
      severity == property(comment, "severity")
  IN  /\ path.type = "string" /\ path.str # ""
      /\ message.type = "string" /\ message.str # ""
      /\ severity.type = "string" /\ severity.str \in severities
      /\ line.type = "number" /\ line.scale = 0 /\ line.num >= 1

\* C12: parseGeminiResponse never raises; it returns a list, and the list is
\* empty when none of its strategies yields a text that parses as an array.
C12_NeverRaises ==
  pCalled =>
    /\ ~pParsed.raised
    /\ DOMAIN pParsed.comments = 1..Len(pParsed.comments)
    /\ (\A text \in strategyTexts(pResponse) : ~isArrayText(text)) => pParsed.comments = << >>

C12_Witness ==
  /\ pCalled
  /\ isArrayText(pResponse)
  /\ \E i \in DOMAIN pElements : pElements[i] = "null"
  /\ \E i \in DOMAIN pElements : wellFormed(JSONparse(pElements[i]).value)
  /\ pParsed = [raised |-> FALSE, comments |-> << >>]

\* C13: every comment parseGeminiResponse returns has a path and a message
\* that are not empty, a severity among error, warning and info, and a line
\* that is an integer greater than or equal to 1.
C13_ReturnedCommentsValid ==
  pCalled => \A i \in DOMAIN pParsed.comments : wellFormed(pParsed.comments[i])

\* C14: when the response holds an array that parses, parseGeminiResponse
\* returns the well-formed elements of the array, all of them and in their
\* order, whatever the other elements are.
C14_ElementWise ==
  LET array == JSONparse(matchArray(pResponse).text)
  IN  (pCalled /\ array.ok) => pParsed.comments = SelectSeq(array.value.items, wellFormed)

\* the position in arrayText(elements) of the last character of element i
RECURSIVE endOf(_, _)
endOf(elements, i) ==
  IF i = 0 THEN 0 ELSE endOf(elements, i - 1) + 1 + Len(elements[i])

\* the number of elements of the cut array that are complete
completeElements == Cardinality({ i \in DOMAIN pElements : endOf(pElements, i) <= pCut })

\* the array is cut inside an element or right after a comma
CutInsideElement ==
  /\ pCut > 0
  /\ completeElements < Len(pElements)
  /\ pCut >= endOf(pElements, completeElements) + 2

\* C15: for an array of objects cut after k complete elements and inside the
\* next element (or right after the comma before it), repairIncompleteJson
\* returns a text that parses as JSON and whose value is the array of the
\* first k elements.
C15_RepairYieldsCompleteElements ==
  (pRepairCalled /\ CutInsideElement) =>
    JSONparse(pRepaired) =
      [ok |-> TRUE,
       value |-> JArray([i \in 1..completeElements |-> JSONparse(pElements[i]).value])]

(***************************************************************************)
(* Properties of reviewFile's routing and of the prompts it builds.        *)
(***************************************************************************)
\* C21: reviewFile takes the reviewLargeFile branch exactly when the patch is
\* longer than 3000 characters and the additions are more than 50; in every
\* other case, a missing additions value included, exactly one prompt is
\* built and exactly one model call is made for the file.
C21_SegmenterIffBothThresholds ==
  sRoute # "none" =>
    /\ (sRoute = "chunks") <=>
         (Len(join(sFile.patch)) > 3000 /\ sFile.hasAdditions /\ sFile.additions > 50)
    /\ sRoute # "chunks" => (Len(sPrompts) = 1 /\ sCalls = 1)

C21_Witness ==
  /\ sRoute = "single"
  /\ ~sFile.hasAdditions
  /\ Len(join(sFile.patch)) > 3000
  /\ Len(sPrompts) = 1
  /\ sCalls = 1

\* the diff of a prompt is the first k lines of its patch and then the marker
keptThenMarker(prompt, k) ==
  prompt.diff = join(SubSeq(prompt.patch, 1, k) \o << truncationMarker >>)

\* C22: when a patch is longer than its budget the diff portion of the prompt
\* is a prefix of the complete lines of the patch followed by exactly one
\* marker line; when the patch is within the budget it is included unchanged
\* and no marker appears.
C22_LineBoundaryTruncation ==
  \A i \in DOMAIN sPrompts :
    IF Len(join(sPrompts[i].patch)) > sPrompts[i].budget
    THEN \E k \in 0..(Len(sPrompts[i].patch) - 1) : keptThenMarker(sPrompts[i], k)
    ELSE /\ sPrompts[i].diff = join(sPrompts[i].patch)
         /\ ~EndsWith(sPrompts[i].diff, truncationMarker)

C22_Witness ==
  /\ Len(sPrompts) = 1
  /\ Len(join(sPrompts[1].patch)) > sPrompts[1].budget
  /\ \E k \in 2..(Len(sPrompts[1].patch) - 1) : keptThenMarker(sPrompts[1], k)

\* C23: the diff portion of every prompt has at most budget + length of the
\* marker characters, the newline before the marker counted.
C23_DiffWithinBudgetPlusMarker ==
  \A i \in DOMAIN sPrompts :
    Len(sPrompts[i].diff) <= sPrompts[i].budget + Len(truncationMarker)

\* C24: the budget of a prompt is 1500 + min(additions * 10, 1000), hence
\* between 1500 and 2500, where additions is the file's value (0 when it is
\* missing) for a file reviewed whole and the count of added lines of the
\* chunk for a chunk.
C24_Budget ==
  \A i \in DOMAIN sPrompts :
    LET additions == IF sRoute = "chunks" THEN CountAdded(sPrompts[i].patch)
                     ELSE IF sFile.hasAdditions THEN sFile.additions ELSE 0
        extra == IF additions * 10 <= 1000 THEN additions * 10 ELSE 1000
    IN  /\ sPrompts[i].budget = 1500 + extra
        /\ sPrompts[i].budget >= 1500
        /\ sPrompts[i].budget <= 2500

C24_Witness ==
  /\ sRoute = "chunks"
  /\ sFile.additions = 200
  /\ Len(sPrompts) = 1
  /\ sPrompts[1].budget = 1510

(***************************************************************************)
(* Properties of callGemini.                                               *)
(***************************************************************************)
\* the response has whatever makes callGemini throw
failing(response) ==
  \/ response.http # "ok"
  \/ response.error
  \/ response.blockReason # ""
  \/ ~response.hasCandidates
  \/ Len(response.candidates) = 0
  \/ response.candidates[1].isNull
  \/ response.candidates[1].content # "parts"
  \/ ~response.candidates[1].hasText
  \/ response.candidates[1].text = ""

\* C25: callGemini returns the text of the first candidate, also when its
\* finish reason is MAX_TOKENS; it throws, and never returns an empty or
\* absent text, on an error payload, a prompt block reason, no candidates or
\* a first candidate without content parts or text; the error payload, then
\* the block reason, decide whatever candidates are present.
C25_ClientOutcomes ==
  gCalled =>
    /\ gResult.threw <=> failing(gResponse)
    /\ ~gResult.threw =>
         (gResult.text = gResponse.candidates[1].text /\ gResult.text # "")
    /\ (gResponse.http = "ok" /\ gResponse.error) =>
         gResult.message = "Gemini API Error"
    /\ (gResponse.http = "ok" /\ ~gResponse.error /\ gResponse.blockReason # "") =>
         gResult.message = "Gemini API Safety Block"

C25_Witness ==
  /\ gCalled
  /\ Len(gResponse.candidates) = 2
  /\ gResponse.candidates[1].finishReason = "MAX_TOKENS"
  /\ gResponse.candidates[2].hasText
  /\ gResponse.candidates[2].text # ""
  /\ ~gResult.threw
  /\ gResult.text = "[] 1"

(***************************************************************************)
(* Properties of the retention sweep.                                      *)
(***************************************************************************)
\* the entry is removed by this step
evicted(before, after) == before.present /\ ~after.present

\* C26: a sweep removes an entry iff the server last reviewed the pull
\* request more than 7 days before the sweep, in the polling and in the
\* webhook server alike: no entry is removed less than 7 days after the last
\* review, and an older entry is removed by the next hourly sweep.
C26_RetentionSweep ==
  [][HourPasses =>
       /\ evicted(tPolling, tPolling') <=>
            (tPolling.present /\ clock' - tReviewedAt.polling > RetentionHours)
       /\ evicted(tWebhook, tWebhook') <=>
            (tWebhook.present /\ clock' - tReviewedAt.webhook > RetentionHours)]_vars

\* the webhook server alone removes an entry iff its last review is more
\* than 7 days old
WebhookRetention ==
  [][HourPasses =>
       (evicted(tWebhook, tWebhook') <=>
          (tWebhook.present /\ clock' - tReviewedAt.webhook > RetentionHours))]_vars

(***************************************************************************)
(* Properties of the summary of a posted review.                           *)
(***************************************************************************)
\* the inline comments of a request whose body opens with the label of a
\* severity
postedWith(request, label) ==
  Cardinality({ j \in DOMAIN request.comments :
                  startsWith(request.comments[j].body,
                             "(robot) **AI CODE REVIEW** (robot)\n\n" \o label) })

\* the body has the count line of a severity iff count is not 0, and then
\* the line gives count
countLine(body, count, before, after) ==
  /\ Includes(body, after) <=> count > 0
  /\ count > 0 => Includes(body, before \o "**" \o ToString(count) \o "** " \o after)

summaryMatches(request, errors, warnings, info) ==
  /\ Len(request.comments) > 0
  /\ errors + warnings + info = Len(request.comments)
  /\ countLine(request.body, errors, "(red) ", "error(s) found\n")
  /\ countLine(request.body, warnings, "(yellow) ", "warning(s) found\n")
  /\ countLine(request.body, info, "(blue) ", "info item(s) found\n")
  /\ Includes(request.body, "This PR has critical issues") <=> errors > 0

\* the request createReview is awaited for
posting == run.requests[Len(run.requests)]

\* C27: the summary of every review passed to createReview has the count
\* line of a severity iff inline comments of that severity are posted, the
\* counts are the numbers of the posted inline comments of each severity
\* and sum to the number of inline comments, and the escalation sentence is
\* there iff an error is posted.
C27_SummaryCounts ==
  run.pc = "post" =>
    summaryMatches(posting,
                   postedWith(posting, "(red) **ERROR**: "),
                   postedWith(posting, "(yellow) **WARNING**: "),
                   postedWith(posting, "(blue) **INFO**: "))

C27_Witness ==
  /\ run.pc = "post"
  /\ Len(run.requests) = 1
  /\ postedWith(run.requests[1], "(red) **ERROR**: ") = 0
  /\ postedWith(run.requests[1], "(yellow) **WARNING**: ") = 1
  /\ postedWith(run.requests[1], "(blue) **INFO**: ") = 1
  /\ ~Includes(run.requests[1].body, "This PR has critical issues")

(***************************************************************************)
(* Properties of the selection of the files.                               *)
(***************************************************************************)
\* the file is not removed, has at most 1500 changed lines and a name that,
\* in lower case, ends in none of the extensions
endsInNone(filename) == \A ext \in nonReviewableExtensions : ~EndsWith(filename, ext)

\* the names of the changed files that, in lower case, end in none of the
\* extensions
SourceNames ==
  { AllFiles[i].filename : i \in { j \in DOMAIN AllFiles : endsInNone(toLowerCase(AllFiles[j].filename)) } }

selected(file) ==
  /\ file.status # "removed"
  /\ file.changes <= 1500
  /\ file.filename \in SourceNames

\* the indices in the listing of the first maxFiles selected files
firstOf(files, chosen) ==
  { i \in DOMAIN files : chosen[i] /\ Cardinality({ j \in 1..i : chosen[j] }) <= maxFiles }

analysed(files) == firstOf(files, [i \in DOMAIN files |-> selected(files[i])])

\* reviewable holds the files at the indices, in the order of the listing
inListingOrder(reviewable, files, indices) ==
  /\ Len(reviewable) = Cardinality(indices)
  /\ \A i \in indices : reviewable[Cardinality({ j \in indices : j <= i })] = files[i]

\* the files of reviewable a model call was made for
calledFiles == { run.calls[c].file : c \in DOMAIN run.calls }

\* C28: the files an invocation analyses are the first maxFiles files, in the
\* order of the listing, of the changed files that are not removed, have at
\* most maxLinesPerFile changes and no excluded extension; the model is
\* called for at most maxFiles files, all of them among these, and never
\* for a file without a patch.
C28_FileSelection ==
  /\ run.filesFetch = "ok" => inListingOrder(run.reviewable, rFiles, analysed(rFiles))
  /\ Cardinality(calledFiles) <= maxFiles
  /\ \A f \in calledFiles :
       f \in DOMAIN run.reviewable /\ run.reviewable[f].patchLength > 0
  /\ run.loopDone =>
       calledFiles = { f \in DOMAIN run.reviewable : run.reviewable[f].patchLength > 0 }

C28_Witness ==
  /\ Len(rFiles) = 3
  /\ \A i \in DOMAIN rFiles : selected(rFiles[i])
  /\ rFiles[1].patchLength = 0
  /\ rFiles[1].changes = 1500
  /\ run.loopDone
  /\ calledFiles = {2}

(***************************************************************************)
(* Properties of the delay between the chunks of a file.                   *)
(***************************************************************************)
\* the step ends at the model call for the next chunk of the same file
NextChunkCalled ==
  /\ run.pc # "idle"
  /\ run'.pc = "call"
  /\ run'.fileIdx = run.fileIdx
  /\ run'.chunk = run.chunk + 1

\* C29: between two consecutive model calls for chunks of the same file the
\* 1000 ms delay is executed, also when the call or the parsing for the
\* earlier chunk failed, and no delay follows the last chunk.
C29_DelayBetweenChunks ==
  [][/\ NextChunkCalled => run.pc = "delay"
     /\ run'.pc = "delay" => run'.chunk < run'.reviewable[run'.fileIdx].hunks]_vars

(***************************************************************************)
(* Properties of the signature check.                                      *)
(***************************************************************************)
\* the step is a delivery to POST /webhook
Delivered == hDeliveries' = hDeliveries + 1

\* C30: with a webhook secret configured, a delivery whose signature is
\* missing, of the wrong length or not the HMAC-SHA256 of the raw body
\* starts no review and leaves processedPRs as it is; without a secret
\* the signature is not checked and no delivery is rejected.
C30_SignatureCheck ==
  [][Delivered =>
       /\ (hSecret.handler /\ ~hLast'.signature.equal) =>
            /\ hLast'.status \in {"401", "500"}
            /\ UNCHANGED << deliveries, wProcessed, wTasks, wStarted >>
       /\ ~hSecret.handler => hLast'.status = "200"]_vars

\* after a review, a delivery with a signature of the wrong length was
\* answered with 500 under a secret
C30_Witness ==
  /\ hSecret.handler
  /\ hSecret.auth
  /\ hLast.signature = Signature(TRUE, FALSE, FALSE)
  /\ hLast.status = "500"
  /\ DOMAIN wProcessed # {}

(***************************************************************************)
(* Properties of the text repairIncompleteJson returns.                    *)
(***************************************************************************)
\* what is open at the end of text: the brackets and braces outside string
\* literals, opening ones less closing ones
openAtEnd(text) == scanLoop(text, 1, Len(text), NoScan)

\* C31: the text repairIncompleteJson returns has, outside string literals,
\* as many closing as opening braces and as many closing as opening
\* brackets, also after the text was cut back to the last complete element.
C31_RepairBalanced ==
  pRepairCalled =>
    /\ openAtEnd(pRepaired).openBraces = 0
    /\ openAtEnd(pRepaired).openBrackets = 0

(***************************************************************************)
(* Properties of the size and the counts of the chunks of splitIntoHunks.  *)
(***************************************************************************)
\* C32: every chunk of splitIntoHunks has at most 101 lines after the shared
\* header lines, whatever the diff.
C32_ChunkSizeBound ==
  sSplit => \A c \in DOMAIN sChunks : Len(chunkBody(sChunks[c], sFile.patch)) <= 101

C32_Witness ==
  /\ sSplit
  /\ Len(sFile.patch) > 200
  /\ \E c \in DOMAIN sChunks : Len(chunkBody(sChunks[c], sFile.patch)) = 101

\* the lines that begin with sign, those that begin with it three times excepted
countSigned(lines, sign) ==
  Cardinality({ i \in DOMAIN lines :
                  startsWith(lines[i], sign) /\ ~startsWith(lines[i], sign \o sign \o sign) })

RECURSIVE sumOf(_, _)
sumOf(chunks, field) ==
  IF chunks = << >> THEN 0 ELSE Head(chunks)[field] + sumOf(Tail(chunks), field)

\* C33: the additions of every chunk are the lines of its body that begin
\* with + but not with +++, its deletions those that begin with - but not
\* with ---, and the sums over the chunks of a diff are the counts over the
\* whole diff.
C33_ChunkCounts ==
  sSplit =>
    /\ \A c \in DOMAIN sChunks :
         /\ sChunks[c].additions = countSigned(chunkBody(sChunks[c], sFile.patch), "+")
         /\ sChunks[c].deletions = countSigned(chunkBody(sChunks[c], sFile.patch), "-")
    /\ sumOf(sChunks, "additions") = countSigned(sFile.patch, "+")
    /\ sumOf(sChunks, "deletions") = countSigned(sFile.patch, "-")

C33_Witness ==
  /\ sSplit
  /\ Len(sChunks) = 2
  /\ sFile.patch[1] = "+a"
  /\ sChunks[1].additions = 1
  /\ sChunks[2].deletions = 2
  /\ sumOf(sChunks, "additions") = 3

(***************************************************************************)
(* Properties of the moment the record of a review is written.             *)
(***************************************************************************)
\* the calls of reviewPullRequest of a server that settled in the last step
settledVia(via) == { s \in lastSettled' : s.via = via }

\* a step changes a processedPRs map only when a call of reviewPullRequest
\* of its server returned, and then to the record of that call's commit
writtenOnReturn(before, after, via) ==
  /\ \A s \in settledVia(via) :
       after = IF s.returned THEN MapSet(before, s.key, [head_sha |-> s.sha]) ELSE before
  /\ settledVia(via) = {} => after = before

\* no call of reviewPullRequest is in flight for a commit that the map of its
\* server shows for its pull request
NoneInFlightMarked ==
  /\ \A i \in DOMAIN wTasks :
       wTasks[i].pc = "review" => ShaOf(wProcessed, wTasks[i].key) # wTasks[i].head_sha
  /\ \A i \in DOMAIN pScans :
       pScans[i].pc = "review" =>
         ShaOf(pProcessed, prKey(Repositories[pScans[i].repo].owner,
                                 Repositories[pScans[i].repo].repo,
                                 pScans[i].list[pScans[i].idx].number))
           # pScans[i].list[pScans[i].idx].sha

skippedAsDraft ==
  /\ tLast.outcome = "draft"
  /\ tLast.head = gitHead
  /\ ~gitDraft
  /\ tPolling.present

\* C35: the poller writes the record after every call of reviewPullRequest
\* that returned, also when it returned because the pull request is a draft
\* or has nothing to post; and no scan sends a pull request to review that
\* was skipped as a draft at its present head commit and was marked ready
\* for review since, while its record is kept.
C35_SkippedIsRecorded ==
  [][PollingReviews =>
       /\ tLast'.outcome # "threw" =>
            /\ tPolling'.present
            /\ tPolling'.head_sha = gitHead
       /\ ~skippedAsDraft]_vars

\* hours after the skip the pull request is ready for review, at the same
\* head commit, and its record shows that commit
C35_Witness ==
  /\ skippedAsDraft
  /\ tPolling.head_sha = gitHead
  /\ clock > tReviewedAt.polling + 1
  /\ gitUpdatedAt > tReviewedAt.polling

(***************************************************************************)
(* Properties of the deduplication inside one invocation.                  *)
(***************************************************************************)
\* the inline comments of the request are the given comments, at their paths
\* and lines and in their order
postsAll(request, comments) ==
  /\ Len(request.comments) = Len(comments)
  /\ \A j \in DOMAIN comments :
       /\ request.comments[j].path = comments[j].path
       /\ request.comments[j].line = comments[j].line

\* C36: when listing the reviews of the pull request or their comments fails,
\* getExistingComments returns the empty set, whatever the reviews hold,
\* reviewPullRequest goes on and throws only if posting fails, and every
\* comment the model calls brought is posted.
C36_FailedListingPostsAll ==
  run.existingFetch = "failed" =>
    /\ run.existing = {}
    /\ run.pc = "done" => LoopFinished
    /\ run.outcome = "threw" => run.postResult = "failed"
    /\ (LoopFinished /\ run.allComments # << >>) =>
         /\ Len(run.requests) = 1
         /\ postsAll(run.requests[1], run.allComments)

\* the pull request has a review of this program with a comment at
\* src/a.ts:10, listing failed, and a new comment at src/a.ts:10 was posted
C36_Witness ==
  /\ run.existingFetch = "failed"
  /\ run.reviewsBefore = 1
  /\ "src/a.ts:10" \in getExistingComments(rReviews)
  /\ run.postResult = "ok"
  /\ \E j \in DOMAIN run.requests[1].comments :
       run.requests[1].comments[j].path = "src/a.ts" /\ run.requests[1].comments[j].line = 10

\* how many of the comments are at the path and line of comment
sameKey(comments, comment) ==
  Cardinality({ j \in DOMAIN comments :
                  comments[j].path = comment.path /\ comments[j].line = comment.line })

\* C37: comments are compared with the existing keys only, never with each
\* other: of the comments of one run whose key is not in the existing set,
\* all are posted in the one review, also those that share a path and line.
C37_NoDedupWithinBatch ==
  (LoopFinished /\ run.requests # << >>) =>
    \A i \in DOMAIN run.allComments :
      CommentKey(run.allComments[i].path, run.allComments[i].line) \notin run.existing =>
        sameKey(run.requests[1].comments, run.allComments[i])
          = sameKey(run.allComments, run.allComments[i])

\* two model calls brought a comment at src/a.ts:10 each and both were posted
\* in one review
C37_Witness ==
  /\ run.postResult = "ok"
  /\ Len(run.calls) >= 2
  /\ "src/a.ts:10" \notin run.existing
  /\ sameKey(run.allComments, c1) = 2
  /\ sameKey(run.requests[1].comments, c1) = 2
  /\ Len(rReviews) = run.reviewsBefore + 1

(***************************************************************************)
(* Properties of the chunks of a large file.                               *)
(***************************************************************************)
\* the model call that settled in this step, if one did
settledCall == run'.calls[Len(run'.calls)]

answerOf(call) == IF call.answered THEN call.answer ELSE << >>

\* C38: a failure of the model call or of the parsing for one chunk of a
\* large file loses the comments of that chunk only: the comments of the
\* earlier chunks are kept, the next chunk is sent to the model, and the
\* file returns the comments of all chunks that succeeded.
C38_ChunkFailureIsolated ==
  [][(/\ Len(run'.calls) = Len(run.calls) + 1
      /\ IsLargeFile(run.reviewable[settledCall.file])) =>
       IF settledCall.chunk < run.reviewable[settledCall.file].hunks
       THEN /\ run'.fileIdx = run.fileIdx
            /\ run'.fileComments = run.fileComments \o answerOf(settledCall)
            /\ run'.pc = IF settledCall.answered THEN "delay" ELSE "call"
            /\ run'.pc = "call" => run'.chunk = settledCall.chunk + 1
       ELSE run'.allComments = run.allComments \o run.fileComments \o answerOf(settledCall)]_vars

\* the first chunk of a large file failed, the second one was sent to the
\* model and its comments are among those of the run
C38_Witness ==
  /\ LoopFinished
  /\ \E i, j \in DOMAIN run.calls :
       /\ run.calls[i].file = run.calls[j].file
       /\ run.calls[i].chunk = 1 /\ ~run.calls[i].answered
       /\ run.calls[j].chunk = 2 /\ run.calls[j].answered
       /\ run.calls[j].answer = << c2, c3 >>
       /\ run.allComments = run.calls[j].answer

(***************************************************************************)
(* Properties of AuthManager.                                              *)
(***************************************************************************)
\* validateSession returned a user only for a session that authenticate
\* returned, that was not logged out, that is not older than 30 days and
\* that no resetPassword followed
ValidatedWereIssued ==
  (aLast.op = "validateSession" /\ aLast.result # Null) =>
    \E s \in aIssued : s.id = aLast.sessionId /\ aLast.at <= s.at + sessionDays

\* C39: validateSession returns a user only for a session id that a
\* successful authenticate issued, that was not logged out, is not older than
\* 30 days and was issued after the last resetPassword; resetPassword removes
\* every session and leaves the users and their repositories as they are.
C39_SessionLifecycle ==
  /\ []ValidatedWereIssued
  /\ [][aLast'.op = "resetPassword" /\ aCalls' # aCalls =>
          /\ authData'.sessions = EmptyMap
          /\ authData'.users = authData.users]_vars

\* no user has a repository twice in the list
NoRepositoryTwice ==
  \A u \in DOMAIN authData.users :
    \A i, j \in DOMAIN authData.users[u].repositories :
      authData.users[u].repositories[i] = authData.users[u].repositories[j] => i = j

\* C40: authenticate with another password than the admin password returns
\* null and changes and saves nothing; addRepository for a user that does not
\* exist or for a repository not of the form owner/name returns false and
\* changes nothing; and no list has a repository twice.
C40_FailedCallsChangeNothing ==
  /\ []NoRepositoryTwice
  /\ [][aCalls' # aCalls =>
          /\ (aLast'.op = "authenticate" /\ aLast'.password # authData.adminPassword) =>
               /\ aLast'.result = Null
               /\ authData' = authData
               /\ ~aLast'.saved
          /\ (/\ aLast'.op = "addRepository"
              /\ \/ aLast'.userId \notin DOMAIN authData.users
                 \/ ~isValidRepositoryFormat(aLast'.repository)) =>
               /\ aLast'.result = "false"
               /\ authData' = authData]_vars

====
